---- MODULE Spec2Model ----
(***************************************************************************)
(* A model of the resolver composition layer of blazesym:                  *)
(*   - FileCache<ElfResolverData>::elf_resolver  (src/src/elf/resolver.rs) *)
(*   - ElfResolver::{from_parser, parser, find_sym, find_addr, for_each}   *)
(*   - DwarfResolver::{find_sym, find_addr, for_each}                      *)
(*   - Units::fill_code_info                     (src/src/dwarf/resolver.rs)*)
(* Rust values are modelled as tagged records: Option as None/Some,        *)
(* Result as Ok/Err, a panic (a failed unwrap) as the value Panic.         *)
(***************************************************************************)
EXTENDS Integers, Sequences, FiniteSets, TLC

\* ------------------------------------------------------------------------
\* Bounds of the model
\* ------------------------------------------------------------------------

\* Number of elf_resolver calls made on a cache in one behaviour.
MaxCalls == 4

\* Number of callers that share one cache, and the number of calls they make
\* between them.
NumCallers == 2

MaxConcCalls == 4

\* Longest inline stack handed to fill_code_info.
MaxFrames == 3

\* Most functions find_name reports for one name.
MaxFound == 2

\* ------------------------------------------------------------------------
\* Option and Result
\* ------------------------------------------------------------------------

None == [tag |-> "None"]

Some(x) == [tag |-> "Some", val |-> x]

Ok(x) == [tag |-> "Ok", val |-> x]

Err(e) == [tag |-> "Err", err |-> e]

Panic == [tag |-> "Panic"]

IsSome(o) == o.tag = "Some"

IsOk(r) == r.tag = "Ok"

IsErr(r) == r.tag = "Err"

\* ------------------------------------------------------------------------
\* Errors (src/src/error.rs)
\* ------------------------------------------------------------------------

\* ErrorImpl::Io(io::Error): an I/O error of the given io::ErrorKind.
IoError(kind) == [variant |-> "Io", kind |-> kind, custom |-> None]

\* An error of another crate: its message and its own source.
CustomError(msg, source) == [variant |-> "Custom", msg |-> msg, source |-> source]

\* ErrorImpl::Dwarf(message)
DwarfError(msg) == [variant |-> "Dwarf", msg |-> msg]

\* The io::ErrorKinds that ErrorImpl::kind maps to the ErrorKind of the same
\* name.
MappedIoKinds ==
    {"NotFound", "PermissionDenied", "AlreadyExists", "WouldBlock",
     "InvalidInput", "InvalidData", "TimedOut", "WriteZero", "Unsupported",
     "UnexpectedEof", "OutOfMemory"}

RECURSIVE ErrorImpl_kind(_)

\* A mutant of ErrorImpl_kind: a context layer hides the kind below it.
ErrorImpl_kind_context_is_other(error) ==
    CASE error.variant = "Dwarf" -> "InvalidDwarf"
      [] error.variant = "Io" ->
            IF error.kind \in MappedIoKinds THEN error.kind ELSE "Other"
      [] error.variant \in {"ContextOwned", "ContextStatic"} -> "Other"

\* A mutant of ErrorImpl_kind: TimedOut has no arm of its own.
ErrorImpl_kind_timed_out_unmapped(error) ==
    CASE error.variant = "Dwarf" -> "InvalidDwarf"
      [] error.variant = "Io" ->
            IF error.kind \in MappedIoKinds \ {"TimedOut"} THEN error.kind ELSE "Other"
      [] error.variant \in {"ContextOwned", "ContextStatic"} ->
            ErrorImpl_kind(error.source)

\* ErrorImpl::kind
ErrorImpl_kind(error) ==
    CASE error.variant = "Dwarf" -> "InvalidDwarf"
      [] error.variant = "Io" ->
            IF error.kind \in MappedIoKinds THEN error.kind ELSE "Other"
      [] error.variant \in {"ContextOwned", "ContextStatic"} ->
            ErrorImpl_kind(error.source)

\* Error::kind
Error_kind(error) == ErrorImpl_kind(error)

\* Display of an io::Error: the message of the error it wraps, or a message
\* of its own for every kind.
io_Error_display(error) ==
    IF IsSome(error.custom) THEN error.custom.val.msg ELSE error.kind

\* source of an io::Error: the source of the error it wraps, if it wraps one.
io_Error_source(error) ==
    IF IsSome(error.custom) THEN error.custom.val.source ELSE None

\* ErrorImpl::source (lines 185-193)
ErrorImpl_source(error) ==
    CASE error.variant = "Dwarf" -> None
      [] error.variant = "Io" -> io_Error_source(error)
      [] error.variant \in {"ContextOwned", "ContextStatic"} -> Some(error.source)

\* Lines 167-172: what Display writes for the error itself.
ErrorImpl_message(error) ==
    CASE error.variant = "Dwarf" -> error.msg
      [] error.variant = "Io" -> io_Error_display(error)
      [] error.variant \in {"ContextOwned", "ContextStatic"} -> error.context

\* {err} of a source: of a layer of this crate or of an error of another.
dyn_Error_display(err) ==
    IF err.variant = "Custom" THEN err.msg ELSE ErrorImpl_message(err)

\* err.source() of a source.
dyn_Error_source(err) ==
    IF err.variant = "Custom" THEN err.source ELSE ErrorImpl_source(err)

RECURSIVE ErrorImpl_display_sources(_)
\* Lines 175-179: the loop over the sources, each written as ": {err}".
ErrorImpl_display_sources(error) ==
    IF IsSome(error)
    THEN <<": ", dyn_Error_display(error.val)>>
            \o ErrorImpl_display_sources(dyn_Error_source(error.val))
    ELSE <<>>

\* A mutant of ErrorImpl_display: the sources are written in both modes.
ErrorImpl_display_always_chain(error, alternate) ==
    <<ErrorImpl_message(error)>>
        \o ErrorImpl_display_sources(ErrorImpl_source(error))

\* Display for ErrorImpl (and for Error, which forwards to it): the pieces
\* written to the formatter, in order. alternate: the {:#} form.
ErrorImpl_display(error, alternate) ==
    <<ErrorImpl_message(error)>>
        \o IF alternate
           THEN ErrorImpl_display_sources(ErrorImpl_source(error))
           ELSE <<>>

\* Error::layer_context. context: the text and whether it is owned.
Error_layer_context(error, context) ==
    IF context.owned
    THEN [variant |-> "ContextOwned", context |-> context.text, source |-> error]
    ELSE [variant |-> "ContextStatic", context |-> context.text, source |-> error]

\* ErrorExt::context for Error
ErrorExt_context(error, context) ==
    Error_layer_context(error, [owned |-> FALSE, text |-> context])

\* ErrorExt::with_context for Error
ErrorExt_with_context(error, context) ==
    Error_layer_context(error, [owned |-> TRUE, text |-> context])

\* From<io::Error> for Error
Error_from_io(other) == [variant |-> "Io", kind |-> other.kind, custom |-> other.custom]

\* Error::with_unsupported: an error whose kind is Unsupported.
Error_with_unsupported(msg) == IoError("Unsupported")

\* ------------------------------------------------------------------------
\* State
\* ------------------------------------------------------------------------

VARIABLES
    cache,      \* FileCache: path -> OnceCell<ElfResolverData>
    nParsers,   \* ElfParser objects constructed so far
    nResolvers, \* Rc<ElfResolver> objects constructed so far
    calls,      \* elf_resolver calls started so far
    last,       \* the last completed sequential elf_resolver call
    callers,    \* callers sharing the cache: the last call of each
    request,    \* a lookup: its arguments and what the parsers answer to it
    reply       \* the operation applied to the request, and its result

cacheVars == <<cache, nParsers, nResolvers, calls, last, callers>>

lookupVars == <<request, reply>>

vars == <<cache, nParsers, nResolvers, calls, last, callers, request, reply>>

\* Paths handed to the cache.
Paths == {"a.bin", "b.bin"}

Callers == 1..NumCallers

\* ------------------------------------------------------------------------
\* ElfResolver construction (src/src/elf/resolver.rs, src/src/dwarf/resolver.rs)
\* ------------------------------------------------------------------------

\* ElfParser::open_file: a fresh parser object for the path, or an I/O or
\* format error.
ElfParser_open_file(path, openOk, pid) ==
    IF openOk THEN Ok([id |-> pid, path |-> path]) ELSE Err(IoError("InvalidData"))

\* DwarfResolver::from_parser: fails when the DWARF sections do not load or
\* parse; on success the resolver keeps the parser it was given.
DwarfResolver_from_parser(parser, dwarfOk) ==
    IF dwarfOk THEN Ok([parser |-> parser]) ELSE Err(DwarfError("invalid DWARF"))

\* DwarfResolver::parser
DwarfResolver_parser(dwarf) == dwarf.parser

\* A mutant of ElfResolver_from_parser: the ELF backend whatever is asked.
ElfResolver_from_parser_always_elf(parser, debug_syms, dwarfOk) ==
    Ok([backend |-> [tag |-> "Elf", parser |-> parser]])

\* ElfResolver::from_parser (feature "dwarf" enabled)
ElfResolver_from_parser(parser, debug_syms, dwarfOk) ==
    IF debug_syms
    THEN LET dwarf == DwarfResolver_from_parser(parser, dwarfOk)
         IN  IF IsErr(dwarf)
             THEN dwarf
             ELSE Ok([backend |-> [tag |-> "Dwarf", dwarf |-> dwarf.val]])
    ELSE Ok([backend |-> [tag |-> "Elf", parser |-> parser]])

\* ElfParser::open: what opening and reading the file at the path yields.
ElfParser_open(path, opened, pid) ==
    IF IsOk(opened) THEN Ok([id |-> pid, path |-> path]) ELSE opened

\* ElfResolver::open: the parser's result is unwrapped (line 117), then the
\* resolver is built with debug_syms = true. pid: the identity the parser
\* gets when it is constructed.
ElfResolver_open(path, opened, dwarfOk, pid) ==
    LET parser == ElfParser_open(path, opened, pid)
    IN  IF IsErr(parser)
        THEN Panic
        ELSE ElfResolver_from_parser(parser.val, TRUE, dwarfOk)

\* ElfResolver::parser
ElfResolver_parser(resolver) ==
    IF resolver.backend.tag = "Dwarf"
    THEN DwarfResolver_parser(resolver.backend.dwarf)
    ELSE resolver.backend.parser

\* Rc::new(resolver): the allocation gives the resolver its identity.
Rc_new(resolver, rid) == [id |-> rid, backend |-> resolver.backend]

\* ------------------------------------------------------------------------
\* FileCache<ElfResolverData>::elf_resolver
\* ------------------------------------------------------------------------

\* The slot of an ElfResolverData that debug_syms selects.
SlotOf(data, debug_syms) == IF debug_syms THEN data.dwarf ELSE data.elf

\* The other slot.
OtherSlotOf(data, debug_syms) == IF debug_syms THEN data.elf ELSE data.dwarf

\* A mutant of the initialising closure: it opens the file a second time.
init_slot_reopen(other, path, debug_syms, dwarfOk, pid) ==
    IF ~IsSome(other)
    THEN Panic
    ELSE ElfResolver_from_parser([id |-> pid, path |-> path], debug_syms, dwarfOk)

\* The closure given to get_or_try_init: build the missing resolver from the
\* parser the other slot's resolver holds (the SANITY unwrap panics when the
\* other slot is empty).
init_slot(other, path, debug_syms, dwarfOk, pid) ==
    IF ~IsSome(other)
    THEN Panic
    ELSE ElfResolver_from_parser(ElfResolver_parser(other.val), debug_syms, dwarfOk)

\* A mutant of elf_resolver_build: a failed build of the second slot leaves a
\* half-built entry behind.
elf_resolver_build_caching_failure(cell, path, debug_syms, openOk, dwarfOk, pid, rid) ==
    IF IsSome(cell)
    THEN LET data == cell.val
             slot == SlotOf(data, debug_syms)
         IN  IF IsSome(slot)
             THEN [res |-> Ok(slot.val), cell |-> cell, opened |-> 0, made |-> 0]
             ELSE LET r == init_slot(OtherSlotOf(data, debug_syms), path,
                                     debug_syms, dwarfOk, pid)
                      rc == Rc_new([backend |-> [tag |-> "Elf",
                                    parser |-> ElfResolver_parser(OtherSlotOf(data, debug_syms).val)]], rid)
                  IN  IF ~IsOk(r)
                      THEN [res |-> r,
                            cell |-> Some(IF debug_syms
                                          THEN [data EXCEPT !.dwarf = Some(rc)]
                                          ELSE [data EXCEPT !.elf = Some(rc)]),
                            opened |-> 0, made |-> 1]
                      ELSE [res |-> Ok(Rc_new(r.val, rid)),
                            cell |-> Some(IF debug_syms
                                          THEN [data EXCEPT !.dwarf = Some(Rc_new(r.val, rid))]
                                          ELSE [data EXCEPT !.elf = Some(Rc_new(r.val, rid))]),
                            opened |-> 0, made |-> 1]
    ELSE LET parser == ElfParser_open_file(path, openOk, pid)
         IN  IF IsErr(parser)
             THEN [res |-> parser, cell |-> cell, opened |-> 0, made |-> 0]
             ELSE LET r == ElfResolver_from_parser(parser.val, debug_syms, dwarfOk)
                  IN  IF IsErr(r)
                      THEN [res |-> r, cell |-> cell, opened |-> 1, made |-> 0]
                      ELSE [res |-> Ok(Rc_new(r.val, rid)), cell |-> cell,
                            opened |-> 1, made |-> 1]

\* Lines 49-78: the resolver for the request. With an entry present, the
\* requested slot's get_or_try_init (which stores what the closure built);
\* without one, a new parser and resolver, not yet stored anywhere.
\* res: Ok(resolver) | Err(error) | Panic; cell: the cell afterwards;
\* opened, made: the parsers and resolvers constructed.
elf_resolver_build(cell, path, debug_syms, openOk, dwarfOk, pid, rid) ==
    IF IsSome(cell)
    THEN LET data == cell.val
             slot == SlotOf(data, debug_syms)
         IN  IF IsSome(slot)
             THEN [res |-> Ok(slot.val), cell |-> cell, opened |-> 0, made |-> 0]
             ELSE LET r == init_slot(OtherSlotOf(data, debug_syms), path,
                                     debug_syms, dwarfOk, pid)
                  IN  IF ~IsOk(r)
                      THEN [res |-> r, cell |-> cell, opened |-> 0, made |-> 0]
                      ELSE [res |-> Ok(Rc_new(r.val, rid)),
                            cell |-> Some(IF debug_syms
                                          THEN [data EXCEPT !.dwarf = Some(Rc_new(r.val, rid))]
                                          ELSE [data EXCEPT !.elf = Some(Rc_new(r.val, rid))]),
                            opened |-> 0, made |-> 1]
    ELSE LET parser == ElfParser_open_file(path, openOk, pid)
         IN  IF IsErr(parser)
             THEN [res |-> parser, cell |-> cell, opened |-> 0, made |-> 0]
             ELSE LET r == ElfResolver_from_parser(parser.val, debug_syms, dwarfOk)
                  IN  IF IsErr(r)
                      THEN [res |-> r, cell |-> cell, opened |-> 1, made |-> 0]
                      ELSE [res |-> Ok(Rc_new(r.val, rid)), cell |-> cell,
                            opened |-> 1, made |-> 1]

\* A mutant of elf_resolver_publish: the cell is set, not get_or_init'ed.
elf_resolver_publish_overwrite(cell, resolver, debug_syms) ==
    Some(IF debug_syms
         THEN [dwarf |-> Some(resolver), elf |-> None]
         ELSE [dwarf |-> None, elf |-> Some(resolver)])

\* A mutant of elf_resolver_publish: the new entry holds no resolver.
elf_resolver_publish_empty(cell, resolver, debug_syms) ==
    IF IsSome(cell)
    THEN cell
    ELSE Some([dwarf |-> None, elf |-> None])

\* Lines 80-92: cell.get_or_init. An empty cell gets an ElfResolverData
\* holding the resolver in the requested slot; a populated cell is kept.
elf_resolver_publish(cell, resolver, debug_syms) ==
    IF IsSome(cell)
    THEN cell
    ELSE Some(IF debug_syms
              THEN [dwarf |-> Some(resolver), elf |-> None]
              ELSE [dwarf |-> None, elf |-> Some(resolver)])

\* A mutant of elf_resolver_return: the slots are mixed up.
elf_resolver_return_wrong_slot(cell, debug_syms) ==
    LET slot == OtherSlotOf(cell.val, debug_syms)
    IN  IF IsSome(slot) THEN Ok(slot.val) ELSE Panic

\* Lines 94-100: the requested slot of the cell's data, unwrapped.
elf_resolver_return(cell, debug_syms) ==
    LET slot == SlotOf(cell.val, debug_syms)
    IN  IF IsSome(slot) THEN Ok(slot.val) ELSE Panic

\* FileCache::entry: the cell of the path, or the error of stat or open.
FileCache_entry(cells, path, entryOk) ==
    IF entryOk THEN Ok(cells[path]) ELSE Err(IoError("NotFound"))

\* The whole of elf_resolver, run without interruption.
elf_resolver(cells, path, debug_syms, entryOk, openOk, dwarfOk, pid, rid) ==
    LET entry == FileCache_entry(cells, path, entryOk)
    IN  IF IsErr(entry)
        THEN [res |-> entry, cell |-> cells[path], opened |-> 0, made |-> 0]
        ELSE LET b == elf_resolver_build(entry.val, path, debug_syms,
                                         openOk, dwarfOk, pid, rid)
             IN  IF ~IsOk(b.res)
                 THEN b
                 ELSE LET c == elf_resolver_publish(b.cell, b.res.val, debug_syms)
                      IN  [res |-> elf_resolver_return(c, debug_syms), cell |-> c,
                           opened |-> b.opened, made |-> b.made]

\* ------------------------------------------------------------------------
\* Address lookup: DwarfResolver::find_sym and Units::fill_code_info
\* (src/src/dwarf/resolver.rs), ElfResolver::find_sym (src/src/elf/resolver.rs)
\* ------------------------------------------------------------------------

\* u16::MAX, the largest column a CodeInfo carries.
U16_MAX == 65535

\* FindSymOpts::code_info: source locations are wanted.
FindSymOpts_code_info(opts) == opts \in {"CodeInfo", "CodeInfoAndInlined"}

\* FindSymOpts::inlined_fns: inlined frames are wanted.
FindSymOpts_inlined_fns(opts) == opts = "CodeInfoAndInlined"

\* From<Option<gimli::DwLang>> for SrcLang
SrcLang_from(other) ==
    IF other = Some("DW_LANG_Rust")
    THEN "Rust"
    ELSE IF other \in {Some("DW_LANG_C_plus_plus"), Some("DW_LANG_C_plus_plus_03"),
                       Some("DW_LANG_C_plus_plus_11"), Some("DW_LANG_C_plus_plus_14")}
         THEN "Cpp"
         ELSE "Unknown"

\* A mutant of CodeInfo_from: the column is cut to its low 16 bits.
CodeInfo_from_truncating(location) ==
    [dir |-> Some(location.dir),
     file |-> location.file,
     line |-> location.line,
     column |-> IF IsSome(location.column)
                THEN Some(location.column.val % (U16_MAX + 1))
                ELSE None]

\* The CodeInfo built from a Location (lines 267-273 and 289-295): the
\* column is converted to u16, saturating.
CodeInfo_from(location) ==
    [dir |-> Some(location.dir),
     file |-> location.file,
     line |-> location.line,
     column |-> IF IsSome(location.column)
                THEN Some(IF location.column.val <= U16_MAX
                          THEN location.column.val
                          ELSE U16_MAX)
                ELSE None]

\* A mutant of push_frame: every frame keeps its own call site.
push_frame_unshifted(acc, name, code_info) ==
    [inlined |-> Append(acc.inlined, [name |-> name, code_info |-> code_info]),
     direct |-> acc.direct]

\* A mutant of push_frame: the first frame copies direct_code_info instead
\* of swapping with it.
push_frame_copy_direct(acc, name, code_info) ==
    LET n == Len(acc.inlined)
    IN  IF n > 0
        THEN [inlined |-> Append([acc.inlined EXCEPT ![n].code_info = code_info],
                                 [name |-> name, code_info |-> acc.inlined[n].code_info]),
              direct |-> acc.direct]
        ELSE [inlined |-> <<[name |-> name, code_info |-> Some(acc.direct)]>>,
              direct |-> acc.direct]

\* A mutant of push_frame: the frames are swapped whole, names included.
push_frame_names_shifted(acc, name, code_info) ==
    LET n == Len(acc.inlined)
    IN  IF n > 0
        THEN [inlined |-> Append([acc.inlined EXCEPT
                                     ![n] = [name |-> name, code_info |-> code_info]],
                                 acc.inlined[n]),
              direct |-> acc.direct]
        ELSE IF IsSome(code_info)
             THEN [inlined |-> <<[name |-> name, code_info |-> Some(acc.direct)]>>,
                   direct |-> code_info.val]
             ELSE [inlined |-> <<[name |-> name, code_info |-> None]>>,
                   direct |-> acc.direct]

\* Lines 298-313, one turn of the loop. acc.inlined: the frames pushed so far,
\* acc.direct: direct_code_info. The frame's code_info is swapped with that of
\* the last frame pushed; for the first frame, when it has a code_info, with
\* direct_code_info. Then the frame is pushed.
push_frame(acc, name, code_info) ==
    LET n == Len(acc.inlined)
    IN  IF n > 0
        THEN [inlined |-> Append([acc.inlined EXCEPT ![n].code_info = code_info],
                                 [name |-> name, code_info |-> acc.inlined[n].code_info]),
              direct |-> acc.direct]
        ELSE IF IsSome(code_info)
             THEN [inlined |-> <<[name |-> name, code_info |-> Some(acc.direct)]>>,
                   direct |-> code_info.val]
             ELSE [inlined |-> <<[name |-> name, code_info |-> None]>>,
                   direct |-> acc.direct]

RECURSIVE shift_frames(_, _, _)
\* Lines 279-314: the loop over inline_stack, from its i-th item on. An item
\* is Ok([name, location]) or an error, which ends the loop (`result?`).
shift_frames(inline_stack, i, acc) ==
    IF i > Len(inline_stack)
    THEN Ok(acc)
    ELSE LET result == inline_stack[i]
         IN  IF IsErr(result)
             THEN result
             ELSE shift_frames(inline_stack, i + 1,
                      push_frame(acc, result.val.name,
                                 IF IsSome(result.val.location)
                                 THEN Some(CodeInfo_from(result.val.location.val))
                                 ELSE None))

\* A mutant of fill_code_info: the inline stack is walked whenever code_info
\* is asked for.
fill_code_info_always_inlined(sym, opts, data, location, inline_stack) ==
    IF ~FindSymOpts_code_info(opts)
    THEN Ok(sym)
    ELSE IF IsErr(location)
    THEN location
    ELSE IF ~IsSome(location.val)
    THEN Ok(sym)
    ELSE LET direct_code_info == CodeInfo_from(location.val.val)
             plain == Ok([sym EXCEPT !.code_info = Some(direct_code_info),
                                     !.inlined = <<>>])
         IN  IF IsSome(data)
             THEN IF IsErr(inline_stack)
                  THEN inline_stack
                  ELSE IF IsSome(inline_stack.val)
                  THEN LET r == shift_frames(inline_stack.val.val, 1,
                                    [inlined |-> <<>>, direct |-> direct_code_info])
                       IN  IF IsErr(r)
                           THEN r
                           ELSE Ok([sym EXCEPT !.code_info = Some(r.val.direct),
                                               !.inlined = r.val.inlined])
                  ELSE plain
             ELSE plain

\* A mutant of fill_code_info: the location is looked up whatever opts says.
fill_code_info_ungated(sym, opts, data, location, inline_stack) ==
    IF IsErr(location)
    THEN location
    ELSE IF ~IsSome(location.val)
    THEN Ok(sym)
    ELSE Ok([sym EXCEPT !.code_info = Some(CodeInfo_from(location.val.val)),
                        !.inlined = <<>>])

\* Units::fill_code_info. data: the function found for the address (an
\* Option); location: what find_location answers; inline_stack: what
\* find_inlined_functions answers. Ok(sym) with the symbol as filled in, or
\* the error.
fill_code_info(sym, opts, data, location, inline_stack) ==
    IF ~FindSymOpts_code_info(opts)
    THEN Ok(sym)
    ELSE IF IsErr(location)
    THEN location
    ELSE IF ~IsSome(location.val)
    THEN Ok(sym)
    ELSE LET direct_code_info == CodeInfo_from(location.val.val)
             plain == Ok([sym EXCEPT !.code_info = Some(direct_code_info),
                                     !.inlined = <<>>])
         IN  IF FindSymOpts_inlined_fns(opts) /\ IsSome(data)
             THEN IF IsErr(inline_stack)
                  THEN inline_stack
                  ELSE IF IsSome(inline_stack.val)
                  THEN LET r == shift_frames(inline_stack.val.val, 1,
                                    [inlined |-> <<>>, direct |-> direct_code_info])
                       IN  IF IsErr(r)
                           THEN r
                           ELSE Ok([sym EXCEPT !.code_info = Some(r.val.direct),
                                               !.inlined = r.val.inlined])
                  ELSE plain
             ELSE plain

\* A mutant of ResolvedSym_from: the size is one short of the range.
ResolvedSym_from_one_short(function) ==
    IF function.name = Some("\\xff")
    THEN Err(DwarfError("invalid UTF-8"))
    ELSE Ok([name |-> IF IsSome(function.name) THEN function.name.val ELSE "",
             addr |-> IF IsSome(function.range) THEN function.range.val.begin ELSE 0,
             size |-> IF IsSome(function.range)
                      THEN Some(function.range.val.end - function.range.val.begin - 1)
                      ELSE None,
             lang |-> SrcLang_from(function.language),
             code_info |-> None,
             inlined |-> <<>>])

\* The ResolvedSym of a DWARF function (lines 130-146), or the error of
\* decoding its name.
ResolvedSym_from(function) ==
    IF function.name = Some("\\xff")
    THEN Err(DwarfError("invalid UTF-8"))
    ELSE Ok([name |-> IF IsSome(function.name) THEN function.name.val ELSE "",
             addr |-> IF IsSome(function.range) THEN function.range.val.begin ELSE 0,
             size |-> IF IsSome(function.range)
                      THEN Some(function.range.val.end - function.range.val.begin)
                      ELSE None,
             lang |-> SrcLang_from(function.language),
             code_info |-> None,
             inlined |-> <<>>])

\* A mutant of DwarfResolver_find_sym: the ELF symbol is returned as it is.
DwarfResolver_find_sym_bare_elf(opts, found, elf, location, inline_stack) ==
    IF IsErr(found)
    THEN found
    ELSE IF IsSome(found.val)
    THEN LET sym == ResolvedSym_from(found.val.val)
         IN  IF IsErr(sym)
             THEN sym
             ELSE LET filled == fill_code_info(sym.val, opts, found.val,
                                               location, inline_stack)
                  IN  IF IsErr(filled) THEN filled ELSE Ok(Ok(filled.val))
    ELSE elf

\* A mutant of DwarfResolver_find_sym: an address nothing covers is an error.
DwarfResolver_find_sym_reason_is_error(opts, found, elf, location, inline_stack) ==
    IF IsErr(found)
    THEN found
    ELSE IF IsSome(found.val)
    THEN LET sym == ResolvedSym_from(found.val.val)
         IN  IF IsErr(sym)
             THEN sym
             ELSE LET filled == fill_code_info(sym.val, opts, found.val,
                                               location, inline_stack)
                  IN  IF IsErr(filled) THEN filled ELSE Ok(Ok(filled.val))
    ELSE IF IsErr(elf)
    THEN elf
    ELSE IF IsErr(elf.val)
    THEN Err(IoError("NotFound"))
    ELSE LET filled == fill_code_info(elf.val.val, opts, found.val,
                                      location, inline_stack)
         IN  IF IsErr(filled) THEN filled ELSE Ok(Ok(filled.val))

\* DwarfResolver::find_sym. found: what find_function answers; elf: what the
\* ELF parser's find_sym answers. Ok(Ok(sym)), Ok(Err(reason)) or Err(error).
DwarfResolver_find_sym(opts, found, elf, location, inline_stack) ==
    IF IsErr(found)
    THEN found
    ELSE IF IsSome(found.val)
    THEN LET sym == ResolvedSym_from(found.val.val)
         IN  IF IsErr(sym)
             THEN sym
             ELSE LET filled == fill_code_info(sym.val, opts, found.val,
                                               location, inline_stack)
                  IN  IF IsErr(filled) THEN filled ELSE Ok(Ok(filled.val))
    ELSE IF IsErr(elf)
    THEN elf
    ELSE IF IsErr(elf.val)
    THEN Ok(Err(elf.val.err))
    ELSE LET filled == fill_code_info(elf.val.val, opts, found.val,
                                      location, inline_stack)
         IN  IF IsErr(filled) THEN filled ELSE Ok(Ok(filled.val))

\* A mutant of ElfResolver_find_sym: the DWARF backend is not asked.
ElfResolver_find_sym_elf_only(backend, opts, found, elf, location, inline_stack) ==
    elf

\* A mutant of ElfResolver_find_sym: a failing DWARF lookup falls back to ELF.
ElfResolver_find_sym_swallowing(backend, opts, found, elf, location, inline_stack) ==
    LET dwarf == DwarfResolver_find_sym(opts, found, elf, location, inline_stack)
    IN  IF backend = "Dwarf" /\ IsOk(dwarf) /\ IsOk(dwarf.val)
        THEN Ok(Ok(dwarf.val.val))
        ELSE elf

\* ElfResolver::find_sym
ElfResolver_find_sym(backend, opts, found, elf, location, inline_stack) ==
    LET dwarf == DwarfResolver_find_sym(opts, found, elf, location, inline_stack)
    IN  IF backend = "Dwarf" /\ IsErr(dwarf)
        THEN dwarf
        ELSE IF backend = "Dwarf" /\ IsOk(dwarf.val)
        THEN Ok(Ok(dwarf.val.val))
        ELSE elf

\* ------------------------------------------------------------------------
\* Name lookup: DwarfResolver::find_addr and for_each
\* (src/src/dwarf/resolver.rs), ElfResolver::find_addr (src/src/elf/resolver.rs)
\* ------------------------------------------------------------------------

\* Error::from(gimli::Error): a DWARF error carrying the message.
Error_from_gimli(err) == DwarfError(err)

\* A mutant of SymInfo_from: the size is subtracted unchecked.
SymInfo_from_unchecked(function, opts, file_offset, path) ==
    LET addr == IF IsSome(function.range) THEN function.range.val.begin ELSE 0
        size == IF IsSome(function.range)
                THEN function.range.val.end - function.range.val.begin
                ELSE 0
    IN  IF opts.offset_in_file /\ IsErr(file_offset)
        THEN file_offset
        ELSE Ok([name |-> function.name.val,
                 addr |-> addr,
                 size |-> size,
                 sym_type |-> "Function",
                 file_offset |-> IF opts.offset_in_file THEN file_offset.val ELSE None,
                 obj_file_name |-> Some(path)])

\* Lines 183-211: the SymInfo of one function found by name. file_offset:
\* what the parser's find_file_offset answers for the function's address.
SymInfo_from(function, opts, file_offset, path) ==
    LET addr == IF IsSome(function.range) THEN function.range.val.begin ELSE 0
        size == IF IsSome(function.range)
                   /\ function.range.val.end >= function.range.val.begin
                THEN function.range.val.end - function.range.val.begin
                ELSE 0
    IN  IF opts.offset_in_file /\ IsErr(file_offset)
        THEN file_offset
        ELSE Ok([name |-> function.name.val,
                 addr |-> addr,
                 size |-> size,
                 sym_type |-> "Function",
                 file_offset |-> IF opts.offset_in_file THEN file_offset.val ELSE None,
                 obj_file_name |-> Some(path)])

RECURSIVE collect_syms(_, _, _, _, _)
\* Lines 178-215: map every item find_name yields and collect the results;
\* the first error ends the collection.
collect_syms(found, i, opts, file_offset, path) ==
    IF i > Len(found)
    THEN Ok(<<>>)
    ELSE LET item == IF IsErr(found[i])
                     THEN Err(Error_from_gimli(found[i].err))
                     ELSE SymInfo_from(found[i].val, opts, file_offset, path)
         IN  IF IsErr(item)
             THEN item
             ELSE LET rest == collect_syms(found, i + 1, opts, file_offset, path)
                  IN  IF IsErr(rest) THEN rest ELSE Ok(<<item.val>> \o rest.val)

\* A mutant of DwarfResolver_find_addr: variables are searched for too.
DwarfResolver_find_addr_any_type(opts, found, file_offset, path) ==
    [res |-> collect_syms(found, 1, opts, file_offset, path), searched |-> TRUE]

\* DwarfResolver::find_addr. found: what find_name yields for the name.
\* res: the result; searched: find_name was called.
DwarfResolver_find_addr(opts, found, file_offset, path) ==
    IF opts.sym_type = "Variable"
    THEN [res |-> Err(Error_with_unsupported("not implemented")), searched |-> FALSE]
    ELSE [res |-> collect_syms(found, 1, opts, file_offset, path), searched |-> TRUE]

\* DwarfResolver::for_each. visited: the calls made to the visitor.
DwarfResolver_for_each(opts) ==
    [res |-> Err(Error_with_unsupported(
                 "DWARF logic does not currently support symbol iteration")),
     visited |-> 0]

\* A mutant of ElfResolver_find_addr: an empty DWARF result is final.
ElfResolver_find_addr_no_fallback(backend, opts, found, file_offset, path, elf) ==
    IF backend = "Dwarf"
    THEN DwarfResolver_find_addr(opts, found, file_offset, path).res
    ELSE elf

\* A mutant of ElfResolver_find_addr: DWARF is asked whatever the backend.
ElfResolver_find_addr_always_dwarf(backend, opts, found, file_offset, path, elf) ==
    LET syms == DwarfResolver_find_addr(opts, found, file_offset, path).res
    IN  IF IsErr(syms)
        THEN syms
        ELSE IF syms.val # <<>>
        THEN syms
        ELSE elf

\* ElfResolver::find_addr. elf: what the ELF parser's find_addr answers.
ElfResolver_find_addr(backend, opts, found, file_offset, path, elf) ==
    LET syms == DwarfResolver_find_addr(opts, found, file_offset, path).res
    IN  IF backend = "Dwarf" /\ IsErr(syms)
        THEN syms
        ELSE IF backend = "Dwarf" /\ syms.val # <<>>
        THEN syms
        ELSE elf

\* ElfParser::for_each(opts, f): the visitor is called once for every symbol
\* the parser streams, unless reading the symbols fails. symbols: the symbols
\* read, or the error.
ElfParser_for_each(opts, symbols) ==
    IF IsErr(symbols)
    THEN [res |-> symbols, visited |-> 0]
    ELSE [res |-> Ok("()"), visited |-> Len(symbols.val)]

\* A mutant of ElfResolver_for_each: the backend's own for_each is called.
ElfResolver_for_each_by_backend(backend, opts, symbols) ==
    IF backend = "Dwarf"
    THEN DwarfResolver_for_each(opts)
    ELSE ElfParser_for_each(opts, symbols)

\* ElfResolver::for_each: the parser's for_each, whatever the backend.
ElfResolver_for_each(backend, opts, symbols) ==
    ElfParser_for_each(opts, symbols)

\* ElfResolver::file_offset_to_virt_offset: the parser's answer, whatever the
\* backend. virt_offset: what the parser answers for the file offset.
ElfResolver_file_offset_to_virt_offset(backend, virt_offset) == virt_offset

\* ------------------------------------------------------------------------
\* ELF symbol types (src/src/elf/types.rs)
\* ------------------------------------------------------------------------

\* Symbol types of the ELF format.
STT_OBJECT == 1

STT_FUNC == 2

STT_GNU_IFUNC == 10

\* st_type(st_info): the low four bits of st_info.
st_type(st_info) == st_info % 16

\* TryFrom<&Elf64_Sym> for SymType
SymType_try_from(st_info) ==
    IF st_type(st_info) \in {STT_FUNC, STT_GNU_IFUNC}
    THEN Ok("Function")
    ELSE IF st_type(st_info) = STT_OBJECT
    THEN Ok("Variable")
    ELSE Err("()")

\* A mutant of sym_matches: indirect functions are no functions.
sym_matches_no_ifunc(st_info, sym_type) ==
    LET elf_ty == st_type(st_info)
        is_func == elf_ty = STT_FUNC
        is_var == elf_ty = STT_OBJECT
    IN  CASE sym_type = "Undefined" -> is_func \/ is_var
          [] sym_type = "Function" -> is_func
          [] sym_type = "Variable" -> is_var

\* sym_matches(symbol, sym_type)
sym_matches(st_info, sym_type) ==
    LET elf_ty == st_type(st_info)
        is_func == elf_ty = STT_FUNC \/ elf_ty = STT_GNU_IFUNC
        is_var == elf_ty = STT_OBJECT
    IN  CASE sym_type = "Undefined" -> is_func \/ is_var
          [] sym_type = "Function" -> is_func
          [] sym_type = "Variable" -> is_var

\* ------------------------------------------------------------------------
\* Requests
\* ------------------------------------------------------------------------

\* The largest address of the address-lookup requests.
MaxAddr == 5

\* The most functions a function table holds.
MaxFns == 2

\* The most context layers put on an error.
MaxLayers == 3

\* Every sequence over S of length at most n.
SeqsUpTo(S, n) == UNION {[1..k -> S] : k \in 0..n}

\* Source locations the line program yields; the second has a column past
\* u16 and no line.
DirectLocations ==
    {[dir |-> "/src", file |-> "main.c", line |-> Some(10), column |-> Some(4)],
     [dir |-> "/src", file |-> "main.c", line |-> None, column |-> Some(70000)]}

\* Call sites of inlined subroutines; the last has a column just past u16.
CallSites ==
    {[dir |-> "/src", file |-> "util.h", line |-> Some(20), column |-> Some(2)],
     [dir |-> "/lib", file |-> "mem.h", line |-> Some(30), column |-> None],
     [dir |-> "/gen", file |-> "wide.h", line |-> Some(1), column |-> Some(65536)]}

\* Functions of the DWARF units: named with a range, unnamed without one,
\* with a name that is not UTF-8, and one whose range is empty-handed
\* (end below begin), which only a lookup by name can yield.
MainFn == [name |-> Some("main"), range |-> Some([begin |-> 2, end |-> 5]),
           language |-> Some("DW_LANG_Rust")]

AnonFn == [name |-> None, range |-> None, language |-> None]

BadNameFn == [name |-> Some("\\xff"), range |-> Some([begin |-> 2, end |-> 5]),
              language |-> Some("DW_LANG_C_plus_plus_11")]

HelperFn == [name |-> Some("helper"), range |-> None, language |-> Some("DW_LANG_C99")]

BackwardsFn == [name |-> Some("main"), range |-> Some([begin |-> 5, end |-> 2]),
                language |-> None]

\* Names of the frames of an inline stack, by position.
FrameNames == <<"inl_1", "inl_2", "inl_3", "inl_4", "inl_5", "inl_6">>

\* The inline stacks find_inlined_functions may yield, in iteration order:
\* every item a frame with or without a call site, or an error.
InlineStacks ==
    {[i \in DOMAIN locs |->
         IF locs[i] = [tag |-> "Error"]
         THEN Err(DwarfError("bad inlined subroutine"))
         ELSE Ok([name |-> FrameNames[i], location |-> locs[i]])] :
     locs \in SeqsUpTo({[tag |-> "Error"], None} \cup {Some(l) : l \in CallSites}, MaxFrames)}

\* A symbol of the ELF symbol table, as the ELF parser resolves it.
ElfSym == [name |-> "elf_main", addr |-> 1, size |-> Some(6), lang |-> "Unknown",
           code_info |-> None, inlined |-> <<>>]

FindSymRequests ==
    [kind : {"find_sym"},
     backend : {"Dwarf", "Elf"},
     opts : {"Basic", "CodeInfo", "CodeInfoAndInlined"},
     found : {Err(DwarfError("bad unit")), Ok(None)}
                \cup {Ok(Some(f)) : f \in {MainFn, AnonFn, BadNameFn, HelperFn}},
     elf : {Err(IoError("InvalidData")), Ok(Err("UnknownAddr")),
            Ok(Err("MissingSyms")), Ok(Ok(ElfSym))},
     location : {Err(DwarfError("bad line program")), Ok(None)}
                   \cup {Ok(Some(l)) : l \in DirectLocations},
     inline_stack : {Err(DwarfError("bad unit")), Ok(None)}
                       \cup {Ok(Some(st)) : st \in InlineStacks}]

\* A symbol the ELF parser finds by name.
ElfSymInfo == [name |-> "main", addr |-> 1, size |-> 6, sym_type |-> "Function",
               file_offset |-> None, obj_file_name |-> Some("a.bin")]

FindAddrRequests ==
    [kind : {"find_addr"},
     backend : {"Dwarf", "Elf"},
     opts : [sym_type : {"Function", "Variable", "Undefined"},
             offset_in_file : BOOLEAN],
     found : SeqsUpTo({Err("bad unit"), Ok(MainFn), Ok(HelperFn), Ok(BackwardsFn)},
                      MaxFound),
     file_offset : {Err(IoError("InvalidData")), Ok(None), Ok(Some(4096))},
     elf : {Err(IoError("InvalidData")), Ok(<<>>), Ok(<<ElfSymInfo>>)},
     path : {"a.bin"}]

\* Symbol iteration and file offset translation: the backend and what the
\* ELF parser reads and answers.
DelegateRequests ==
    [kind : {"delegate"},
     backend : {"Dwarf", "Elf"},
     opts : [sym_type : {"Function", "Variable", "Undefined"},
             offset_in_file : BOOLEAN],
     symbols : {Err(IoError("InvalidData")), Ok(<<>>), Ok(<<ElfSymInfo>>),
                Ok(<<ElfSymInfo, ElfSymInfo>>)},
     virt_offset : {Err(IoError("InvalidData")), Ok(None), Ok(Some(8192))}]

NoRequest == [kind |-> "none"]

NoReply == [op |-> "none"]

\* ------------------------------------------------------------------------
\* Sequential use of the cache
\* ------------------------------------------------------------------------

NoCall == [tag |-> "NoCall"]

InitCache ==
    /\ cache = [p \in Paths |-> None]
    /\ nParsers = 0
    /\ nResolvers = 0
    /\ calls = 0
    /\ last = NoCall
    /\ callers = [t \in Callers |-> NoCall]

\* One elf_resolver(path, debug_syms) call; what the file system and the
\* DWARF parser answer is the environment's choice. last.retry: the call
\* before this one had the same key and failed while constructing.
ElfResolverCall(path, debug_syms) ==
    /\ calls < MaxCalls
    /\ \E entryOk, openOk, dwarfOk \in BOOLEAN :
          LET r == elf_resolver(cache, path, debug_syms, entryOk, openOk,
                                dwarfOk, nParsers, nResolvers)
          IN  /\ cache' = [cache EXCEPT ![path] = r.cell]
              /\ nParsers' = nParsers + r.opened
              /\ nResolvers' = nResolvers + r.made
              /\ last' = [tag |-> "Call", path |-> path, debug_syms |-> debug_syms,
                          entryOk |-> entryOk, openOk |-> openOk, dwarfOk |-> dwarfOk,
                          res |-> r.res, before |-> cache[path],
                          opened |-> r.opened, made |-> r.made,
                          retry |-> /\ last.tag = "Call"
                                    /\ last.path = path
                                    /\ last.debug_syms = debug_syms
                                    /\ last.entryOk
                                    /\ IsErr(last.res)]
    /\ calls' = calls + 1
    /\ UNCHANGED <<callers, lookupVars>>

Init == InitCache /\ request = NoRequest /\ reply = NoReply

Next == \E path \in Paths, debug_syms \in BOOLEAN : ElfResolverCall(path, debug_syms)

Spec == Init /\ [][Next]_vars

\* ------------------------------------------------------------------------
\* Several callers of one cache. The cache hands out Rc and keeps its cells
\* in a OnceCell that is not Sync, and elf_resolver calls nothing that comes
\* back to the cache: callers share it on one thread, and their calls
\* interleave as whole calls, in any order.
\* ------------------------------------------------------------------------

\* Caller t calls elf_resolver(path, debug_syms) and keeps what it returns.
\* at: the position of the call among all calls; first: that of the caller's
\* first call.
ConcCall(t, path, debug_syms) ==
    /\ calls < MaxConcCalls
    /\ \E entryOk, openOk, dwarfOk \in BOOLEAN :
          LET r == elf_resolver(cache, path, debug_syms, entryOk, openOk,
                                dwarfOk, nParsers, nResolvers)
          IN  /\ cache' = [cache EXCEPT ![path] = r.cell]
              /\ nParsers' = nParsers + r.opened
              /\ nResolvers' = nResolvers + r.made
              /\ callers' = [callers EXCEPT ![t] =
                     [tag |-> "Call", path |-> path, debug_syms |-> debug_syms,
                      res |-> r.res, at |-> calls + 1,
                      first |-> IF callers[t].tag = "Call"
                                THEN callers[t].first
                                ELSE calls + 1]]
    /\ calls' = calls + 1
    /\ UNCHANGED <<last, lookupVars>>

NextConc ==
    \E t \in Callers, path \in Paths, debug_syms \in BOOLEAN :
        ConcCall(t, path, debug_syms)

SpecConc == Init /\ [][NextConc]_vars

\* ------------------------------------------------------------------------
\* Lookups: a request is drawn, one operation is applied to it
\* ------------------------------------------------------------------------

InitLookup ==
    /\ InitCache
    /\ request \in FindSymRequests \cup FindAddrRequests \cup DelegateRequests
    /\ reply = NoReply

\* DwarfResolver::find_sym(addr, opts)
DwarfFindSym ==
    /\ request.kind = "find_sym"
    /\ request.backend = "Dwarf"
    /\ reply = NoReply
    /\ reply' = [op |-> "DwarfResolver::find_sym",
                 res |-> DwarfResolver_find_sym(request.opts, request.found,
                             request.elf, request.location, request.inline_stack)]
    /\ UNCHANGED <<cacheVars, request>>

\* ElfResolver::find_sym(addr, opts)
ElfResolverFindSym ==
    /\ request.kind = "find_sym"
    /\ reply = NoReply
    /\ reply' = [op |-> "ElfResolver::find_sym",
                 res |-> ElfResolver_find_sym(request.backend, request.opts,
                             request.found, request.elf, request.location,
                             request.inline_stack)]
    /\ UNCHANGED <<cacheVars, request>>

\* DwarfResolver::find_addr(name, opts)
DwarfFindAddr ==
    /\ request.kind = "find_addr"
    /\ request.backend = "Dwarf"
    /\ reply = NoReply
    /\ LET r == DwarfResolver_find_addr(request.opts, request.found,
                                        request.file_offset, request.path)
       IN  reply' = [op |-> "DwarfResolver::find_addr", res |-> r.res,
                     searched |-> r.searched]
    /\ UNCHANGED <<cacheVars, request>>

\* DwarfResolver::for_each(opts, f)
DwarfForEach ==
    /\ request.kind = "find_addr"
    /\ request.backend = "Dwarf"
    /\ reply = NoReply
    /\ LET r == DwarfResolver_for_each(request.opts)
       IN  reply' = [op |-> "DwarfResolver::for_each", res |-> r.res,
                     visited |-> r.visited]
    /\ UNCHANGED <<cacheVars, request>>

\* ElfResolver::find_addr(name, opts)
ElfResolverFindAddr ==
    /\ request.kind = "find_addr"
    /\ reply = NoReply
    /\ reply' = [op |-> "ElfResolver::find_addr",
                 res |-> ElfResolver_find_addr(request.backend, request.opts,
                             request.found, request.file_offset, request.path,
                             request.elf)]
    /\ UNCHANGED <<cacheVars, request>>

\* ElfResolver::for_each(opts, f)
ElfResolverForEach ==
    /\ request.kind = "delegate"
    /\ reply = NoReply
    /\ LET r == ElfResolver_for_each(request.backend, request.opts, request.symbols)
       IN  reply' = [op |-> "ElfResolver::for_each", res |-> r.res,
                     visited |-> r.visited]
    /\ UNCHANGED <<cacheVars, request>>

\* ElfResolver::file_offset_to_virt_offset(file_offset)
ElfResolverFileOffsetToVirtOffset ==
    /\ request.kind = "delegate"
    /\ reply = NoReply
    /\ reply' = [op |-> "ElfResolver::file_offset_to_virt_offset",
                 res |-> ElfResolver_file_offset_to_virt_offset(
                             request.backend, request.virt_offset)]
    /\ UNCHANGED <<cacheVars, request>>

NextLookup ==
    \/ DwarfFindSym
    \/ ElfResolverFindSym
    \/ DwarfFindAddr
    \/ DwarfForEach
    \/ ElfResolverFindAddr
    \/ ElfResolverForEach
    \/ ElfResolverFileOffsetToVirtOffset

SpecLookup == InitLookup /\ [][NextLookup]_vars

\* ------------------------------------------------------------------------
\* Address lookup over function tables: what find_function and the ELF
\* parser's find_sym answer is computed from the functions of the units and
\* the symbols of the symbol table.
\* ------------------------------------------------------------------------

\* Address ranges [begin, end) with begin < end.
AddrRanges ==
    {r \in [begin : 1..MaxAddr, end : 1..MaxAddr] : r.begin < r.end}

\* Names of the functions of the units, by position.
FnNames == <<"fn_1", "fn_2", "fn_3", "fn_4">>

\* The function tables of the units: up to MaxFns functions, each with a
\* range.
FunctionTables ==
    {[i \in DOMAIN ranges |->
         [name |-> Some(FnNames[i]), range |-> Some(ranges[i]),
          language |-> Some("DW_LANG_Rust")]] :
     ranges \in SeqsUpTo(AddrRanges, MaxFns)}

\* The function covers the address: begin inclusive, end exclusive.
Covers(range, addr) == range.begin <= addr /\ addr < range.end

\* Units::find_function(addr): the first function of the table whose range
\* covers addr, if any.
Units_find_function(functions, addr) ==
    IF \E i \in DOMAIN functions : Covers(functions[i].range.val, addr)
    THEN LET i == CHOOSE i \in DOMAIN functions :
                     /\ Covers(functions[i].range.val, addr)
                     /\ \A j \in 1..(i - 1) : ~Covers(functions[j].range.val, addr)
         IN  Ok(Some(functions[i]))
    ELSE Ok(None)

\* ElfParser::find_sym(addr, opts): the symbol of the table that covers addr,
\* or the reason there is none. symbols: at most one symbol, as a range.
ElfParser_find_sym(symbols, addr) ==
    IF symbols # <<>> /\ Covers(symbols[1], addr)
    THEN Ok(Ok([name |-> "elf_sym", addr |-> symbols[1].begin,
                size |-> Some(symbols[1].end - symbols[1].begin),
                lang |-> "Unknown", code_info |-> None, inlined |-> <<>>]))
    ELSE Ok(Err("UnknownAddr"))

AddrRequests ==
    [kind : {"find_sym_at"},
     backend : {"Dwarf", "Elf"},
     opts : {"Basic", "CodeInfo"},
     addr : 0..MaxAddr,
     functions : FunctionTables,
     symbols : SeqsUpTo(AddrRanges, 1),
     location : {Ok(Some(l)) : l \in {d \in DirectLocations : IsSome(d.line)}}]

InitAddr ==
    /\ InitCache
    /\ request \in AddrRequests
    /\ reply = NoReply

\* DwarfResolver::find_sym(addr, opts) over the function table
DwarfFindSymAt ==
    /\ request.kind = "find_sym_at"
    /\ request.backend = "Dwarf"
    /\ reply = NoReply
    /\ reply' = [op |-> "DwarfResolver::find_sym",
                 res |-> DwarfResolver_find_sym(request.opts,
                             Units_find_function(request.functions, request.addr),
                             ElfParser_find_sym(request.symbols, request.addr),
                             request.location, Ok(None))]
    /\ UNCHANGED <<cacheVars, request>>

\* ElfResolver::find_sym(addr, opts) over the function table
ElfResolverFindSymAt ==
    /\ request.kind = "find_sym_at"
    /\ reply = NoReply
    /\ reply' = [op |-> "ElfResolver::find_sym",
                 res |-> ElfResolver_find_sym(request.backend, request.opts,
                             Units_find_function(request.functions, request.addr),
                             ElfParser_find_sym(request.symbols, request.addr),
                             request.location, Ok(None))]
    /\ UNCHANGED <<cacheVars, request>>

NextAddr ==
    \/ DwarfFindSymAt
    \/ ElfResolverFindSymAt

SpecAddr == InitAddr /\ [][NextAddr]_vars

\* ------------------------------------------------------------------------
\* Errors, language conversion and opening: an error is created from its
\* root and layered with contexts; a unit's language is converted; a file is
\* opened.
\* ------------------------------------------------------------------------

\* io::ErrorKinds of root errors: those with an ErrorKind of their own and
\* some of the others.
IoKinds ==
    MappedIoKinds \cup {"Interrupted", "BrokenPipe", "ConnectionRefused", "Other"}

\* Messages of gimli errors.
GimliErrors == {"unexpected end of input", "unknown form"}

\* Context texts.
Contexts == {"inner context", "outer context"}

\* DW_AT_language values of units.
Languages ==
    {None} \cup {Some(l) : l \in
        {"DW_LANG_Rust", "DW_LANG_C_plus_plus", "DW_LANG_C_plus_plus_03",
         "DW_LANG_C_plus_plus_11", "DW_LANG_C_plus_plus_14",
         "DW_LANG_C_plus_plus_17", "DW_LANG_C_plus_plus_20",
         "DW_LANG_C", "DW_LANG_C99", "DW_LANG_C11", "DW_LANG_Go"}}

\* What an io::Error wraps: nothing (io::Error::from(kind)), an error without
\* source (io::Error::new(kind, "text")) or an error with a source.
CustomErrors ==
    {None,
     Some(CustomError("some invalid data", None)),
     Some(CustomError("wrapper failed", Some(CustomError("inner cause", None))))}

ErrorRequests ==
    [kind : {"error"},
     root : {[from |-> "io", kind |-> k, custom |-> c] : k \in IoKinds, c \in CustomErrors}
               \cup {[from |-> "gimli", msg |-> m] : m \in GimliErrors}]

LangRequests == [kind : {"lang"}, language : Languages]

OpenRequests ==
    [kind : {"open"},
     path : Paths,
     opened : {Ok("file")} \cup {Err(IoError(k)) :
                  k \in {"NotFound", "PermissionDenied", "InvalidData"}},
     dwarfOk : BOOLEAN]

\* ELF symbols by their st_info byte, and the type asked for.
SymRequests ==
    [kind : {"sym"}, st_info : 0..255,
     sym_type : {"Function", "Variable", "Undefined"}]

\* What is observed of an error: its kind and its two display forms.
\* layers: the contexts added so far, oldest first.
Observed(op, error, layers) ==
    [op |-> op, error |-> error, layers |-> layers,
     kind |-> Error_kind(error),
     short |-> ErrorImpl_display(error, FALSE),
     long |-> ErrorImpl_display(error, TRUE)]

ErrorOps == {"Error::from", "ErrorExt::context", "ErrorExt::with_context"}

InitConv ==
    /\ InitCache
    /\ request \in ErrorRequests \cup LangRequests \cup OpenRequests \cup SymRequests
    /\ reply = NoReply

\* Error::from(io::Error)
ErrorFromIo ==
    /\ request.kind = "error"
    /\ request.root.from = "io"
    /\ reply = NoReply
    /\ reply' = Observed("Error::from", Error_from_io(request.root), <<>>)
    /\ UNCHANGED <<cacheVars, request>>

\* Error::from(gimli::Error)
ErrorFromGimli ==
    /\ request.kind = "error"
    /\ request.root.from = "gimli"
    /\ reply = NoReply
    /\ reply' = Observed("Error::from", Error_from_gimli(request.root.msg), <<>>)
    /\ UNCHANGED <<cacheVars, request>>

\* error.context(context)
ErrorContext(context) ==
    /\ reply.op \in ErrorOps
    /\ Len(reply.layers) < MaxLayers
    /\ reply' = Observed("ErrorExt::context", ErrorExt_context(reply.error, context),
                         Append(reply.layers, context))
    /\ UNCHANGED <<cacheVars, request>>

\* error.with_context(|| context)
ErrorWithContext(context) ==
    /\ reply.op \in ErrorOps
    /\ Len(reply.layers) < MaxLayers
    /\ reply' = Observed("ErrorExt::with_context",
                         ErrorExt_with_context(reply.error, context),
                         Append(reply.layers, context))
    /\ UNCHANGED <<cacheVars, request>>

\* SrcLang::from(unit.language())
SrcLangFrom ==
    /\ request.kind = "lang"
    /\ reply = NoReply
    /\ reply' = [op |-> "SrcLang::from", lang |-> SrcLang_from(request.language)]
    /\ UNCHANGED <<cacheVars, request>>

\* ElfResolver::open(path)
ElfResolverOpen ==
    /\ request.kind = "open"
    /\ reply = NoReply
    /\ reply' = [op |-> "ElfResolver::open",
                 res |-> ElfResolver_open(request.path, request.opened,
                                          request.dwarfOk, nParsers)]
    /\ nParsers' = IF IsOk(request.opened) THEN nParsers + 1 ELSE nParsers
    /\ UNCHANGED <<cache, nResolvers, calls, last, callers, request>>

\* sym_matches(symbol, sym_type)
SymMatches ==
    /\ request.kind = "sym"
    /\ reply = NoReply
    /\ reply' = [op |-> "sym_matches",
                 matches |-> sym_matches(request.st_info, request.sym_type)]
    /\ UNCHANGED <<cacheVars, request>>

\* SymType::try_from(symbol)
SymTypeTryFrom ==
    /\ request.kind = "sym"
    /\ reply = NoReply
    /\ reply' = [op |-> "SymType::try_from", res |-> SymType_try_from(request.st_info)]
    /\ UNCHANGED <<cacheVars, request>>

NextConv ==
    \/ ErrorFromIo
    \/ ErrorFromGimli
    \/ \E context \in Contexts : ErrorContext(context)
    \/ \E context \in Contexts : ErrorWithContext(context)
    \/ SrcLangFrom
    \/ ElfResolverOpen
    \/ SymMatches
    \/ SymTypeTryFrom

SpecConv == InitConv /\ [][NextConv]_vars

\* ------------------------------------------------------------------------
\* The command line's symbolize output (src/cli/src/main.rs)
\* ------------------------------------------------------------------------

\* Number of input addresses and of symbolization results of one run.
MaxInputs == 3

MaxSyms == 4

\* Input addresses of the command line.
InputAddrs == {4096, 8192}

\* The lines printed: for an address without symbol, for the symbol of an
\* address, and for an inlined call (which prints no input address).
NoSymbolLine(input_addr) == [kind |-> "no-symbol", input_addr |-> Some(input_addr)]

HeaderLine(input_addr) == [kind |-> "header", input_addr |-> Some(input_addr)]

InlinedLine == [kind |-> "inlined", input_addr |-> None]

\* addrs.iter().take(addr_idx).skip(first): a "<no-symbol>" line for each of
\* the indices first .. addr_idx - 1 (indices count from 0).
RECURSIVE symbolize_no_symbol_lines(_, _, _)
symbolize_no_symbol_lines(addrs, first, addr_idx) ==
    IF first >= addr_idx \/ first >= Len(addrs)
    THEN <<>>
    ELSE <<NoSymbolLine(addrs[first + 1])>>
             \o symbolize_no_symbol_lines(addrs, first + 1, addr_idx)

\* The loop of symbolize over syms, from the i-th result on. syms: the
\* addr_idx of each result.
RECURSIVE symbolize_loop(_, _, _, _)
symbolize_loop(addrs, syms, i, prev_addr_idx) ==
    IF i > Len(syms)
    THEN <<>>
    ELSE LET addr_idx == syms[i]
             skipped == IF IsSome(prev_addr_idx)
                        THEN symbolize_no_symbol_lines(addrs, prev_addr_idx.val + 1,
                                                       addr_idx)
                        ELSE <<>>
             line == IF prev_addr_idx /= Some(addr_idx)
                     THEN HeaderLine(addrs[addr_idx + 1])
                     ELSE InlinedLine
         IN  skipped \o <<line>> \o symbolize_loop(addrs, syms, i + 1, Some(addr_idx))

\* symbolize: what is printed for the addresses and the results.
symbolize(addrs, syms) == symbolize_loop(addrs, syms, 1, None)

\* Results of the symbolizer: the addr_idx of each, never decreasing.
SymbolizeResults(n) ==
    {syms \in SeqsUpTo(0..(n - 1), MaxSyms) :
        \A i \in 1..(Len(syms) - 1) : syms[i] <= syms[i + 1]}

SymbolizeRequests ==
    UNION {[kind : {"symbolize"}, addrs : [1..n -> InputAddrs],
            syms : SymbolizeResults(n)] : n \in 0..MaxInputs}

InitCli ==
    /\ InitCache
    /\ request \in SymbolizeRequests
    /\ reply = NoReply

\* symbolize(symbolize)
CliSymbolize ==
    /\ request.kind = "symbolize"
    /\ reply = NoReply
    /\ reply' = [op |-> "symbolize", out |-> symbolize(request.addrs, request.syms)]
    /\ UNCHANGED <<cacheVars, request>>

NextCli == CliSymbolize

SpecCli == InitCli /\ [][NextCli]_vars

\* ------------------------------------------------------------------------
\* Properties of the cache
\* ------------------------------------------------------------------------

\* The slot (path, debug_syms) of the cache, None while the path has no entry.
CachedSlot(cells, path, debug_syms) ==
    IF IsSome(cells[path]) THEN SlotOf(cells[path].val, debug_syms) ELSE None

\* C3: cache slots are write-once. In every step, a slot that holds a
\* resolver holds the very same resolver afterwards, and a successful
\* elf_resolver call whose slot was already populated returns that resolver.
C3_SlotsWriteOnce ==
    [][ /\ \A p \in Paths, d \in BOOLEAN :
              IsSome(CachedSlot(cache, p, d))
                  => CachedSlot(cache', p, d) = CachedSlot(cache, p, d)
        /\ ( /\ last'.tag = "Call"
             /\ IsOk(last'.res)
             /\ IsSome(CachedSlot(cache, last'.path, last'.debug_syms)) )
              => Some(last'.res.val) = CachedSlot(cache, last'.path, last'.debug_syms)
      ]_vars

\* C3 witness: a call found its slot populated and returned the resolver that
\* an earlier call had stored there.
C3_Witness ==
    /\ last.tag = "Call"
    /\ IsOk(last.res)
    /\ last.made = 0
    /\ IsSome(last.before)
    /\ SlotOf(last.before.val, last.debug_syms) = Some(last.res.val)
    /\ CachedSlot(cache, last.path, last.debug_syms) = Some(last.res.val)

\* C4: parser reuse. Whenever both slots of a path are populated their
\* resolvers hold the same ElfParser object, and a call that finds an entry
\* for its path constructs no ElfParser.
C4_ParserReuse ==
    /\ \A p \in Paths :
          ( /\ IsSome(CachedSlot(cache, p, TRUE))
            /\ IsSome(CachedSlot(cache, p, FALSE)) )
              => ElfResolver_parser(CachedSlot(cache, p, TRUE).val)
                    = ElfResolver_parser(CachedSlot(cache, p, FALSE).val)
    /\ (last.tag = "Call" /\ IsSome(last.before)) => last.opened = 0

\* C4 witness: one path was filled elf first then dwarf, another dwarf first
\* then elf (resolver ids grow in construction order), each by two calls that
\* opened one parser.
C4_Witness ==
    /\ \E p \in Paths :
          /\ IsSome(CachedSlot(cache, p, TRUE))
          /\ IsSome(CachedSlot(cache, p, FALSE))
          /\ CachedSlot(cache, p, FALSE).val.id < CachedSlot(cache, p, TRUE).val.id
    /\ \E p \in Paths :
          /\ IsSome(CachedSlot(cache, p, TRUE))
          /\ IsSome(CachedSlot(cache, p, FALSE))
          /\ CachedSlot(cache, p, TRUE).val.id < CachedSlot(cache, p, FALSE).val.id
    /\ nParsers = 2

\* C5: a failed build is not cached. A call whose construction failed (the
\* entry lookup itself succeeded) returned the error, stored nothing, left
\* the requested slot empty and the path's cell as it was; and the call after
\* it for the same key builds again: with a file that opens and DWARF that
\* parses it constructs and returns a resolver.
C5_FailureNotCached ==
    /\ (last.tag = "Call" /\ last.entryOk /\ ~IsOk(last.res))
          => /\ IsErr(last.res)
             /\ cache[last.path] = last.before
             /\ ~IsSome(CachedSlot(cache, last.path, last.debug_syms))
             /\ last.made = 0
    /\ (last.tag = "Call" /\ last.retry /\ last.entryOk /\ last.openOk /\ last.dwarfOk)
          => /\ IsOk(last.res)
             /\ last.made = 1
             /\ CachedSlot(cache, last.path, last.debug_syms) = Some(last.res.val)

\* C5 witness: filling the second slot failed in the DWARF parser with the
\* first slot populated, and the next call for the same key succeeded.
C5_Witness ==
    /\ last.tag = "Call"
    /\ last.retry
    /\ last.debug_syms
    /\ IsOk(last.res)
    /\ IsSome(last.before)
    /\ IsSome(last.before.val.elf)
    /\ ~IsSome(last.before.val.dwarf)

\* C6: the cache is safe for several callers. Under every interleaving of
\* the callers' elf_resolver calls no call panics, no step changes a slot
\* that holds a resolver (every slot is initialized at most once), every
\* resolver in a slot is a complete one of the slot's backend, and every
\* successful call has returned the resolver that is in the slot it asked
\* for, which stays there whatever the other callers do afterwards.
C6_SafeUnderInterleaving ==
    [][ /\ \A p \in Paths, d \in BOOLEAN :
              /\ IsSome(CachedSlot(cache, p, d))
                    => CachedSlot(cache', p, d) = CachedSlot(cache, p, d)
              /\ IsSome(CachedSlot(cache', p, d))
                    => /\ CachedSlot(cache', p, d).val.id \in 0..(nResolvers' - 1)
                       /\ CachedSlot(cache', p, d).val.backend.tag =
                             IF d THEN "Dwarf" ELSE "Elf"
        /\ \A t \in Callers :
              callers'[t].tag = "Call"
                  => /\ callers'[t].res # Panic
                     /\ IsOk(callers'[t].res)
                           => CachedSlot(cache', callers'[t].path, callers'[t].debug_syms)
                                  = Some(callers'[t].res.val)
      ]_vars

\* C6 witness: the calls of two callers on one path interleaved: one caller
\* called, then the other, then the first again; one holds the resolver of
\* the dwarf slot and the other that of the elf slot.
C6_Witness ==
    \E t, u \in Callers :
        /\ callers[t].tag = "Call" /\ callers[u].tag = "Call"
        /\ callers[t].first < callers[u].at
        /\ callers[u].at < callers[t].at
        /\ callers[t].path = callers[u].path
        /\ callers[t].debug_syms /\ ~callers[u].debug_syms
        /\ IsOk(callers[t].res) /\ IsOk(callers[u].res)
        /\ CachedSlot(cache, callers[t].path, TRUE) = Some(callers[t].res.val)
        /\ CachedSlot(cache, callers[u].path, FALSE) = Some(callers[u].res.val)

\* ------------------------------------------------------------------------
\* Properties of address lookup
\* ------------------------------------------------------------------------

\* The CodeInfo of an optional Location.
OptCodeInfo(location) ==
    IF IsSome(location) THEN Some(CodeInfo_from(location.val)) ELSE None

\* DwarfResolver::find_sym was applied to an address whose function has a
\* decodable name, a line-program location and an inline stack of at least
\* one frame, none of them an error, with code_info and inlined_fns asked for.
InlineCase ==
    /\ request.kind = "find_sym"
    /\ reply.op = "DwarfResolver::find_sym"
    /\ request.opts = "CodeInfoAndInlined"
    /\ IsOk(request.found)
    /\ IsSome(request.found.val)
    /\ IsOk(ResolvedSym_from(request.found.val.val))
    /\ IsOk(request.location)
    /\ IsSome(request.location.val)
    /\ IsOk(request.inline_stack)
    /\ IsSome(request.inline_stack.val)
    /\ Len(request.inline_stack.val.val) >= 1
    /\ \A i \in DOMAIN request.inline_stack.val.val :
           IsOk(request.inline_stack.val.val[i])

\* The inline stack of the request, in iteration order (the first frame is
\* the one inlined into the physical function), and the line-program location.
Stack == request.inline_stack.val.val

Direct == CodeInfo_from(request.location.val.val)

\* C1 (as claimed): for every inline stack of n >= 1 frames with optional
\* call sites, the physical symbol's code_info is the call site of the
\* outermost frame, every other frame's code_info is the call site of the
\* frame immediately inside it, and the innermost frame's code_info is the
\* line-program location.
C1_FrameShiftAnyStack ==
    InlineCase =>
        /\ IsOk(reply.res) /\ IsOk(reply.res.val)
        /\ LET sym == reply.res.val.val
               n == Len(Stack)
           IN  /\ Len(sym.inlined) = n
               /\ sym.code_info = OptCodeInfo(Stack[1].val.location)
               /\ \A i \in 1..(n - 1) :
                     sym.inlined[i].code_info = OptCodeInfo(Stack[i + 1].val.location)
               /\ sym.inlined[n].code_info = Some(Direct)

\* C1 (amended): every frame but the innermost gets the call site of the
\* frame immediately inside it; when the outermost frame carries a call site,
\* that call site is the physical symbol's code_info and the innermost frame
\* gets the line-program location; when it carries none, the physical symbol
\* keeps the line-program location and the innermost frame gets no code_info.
C1_FrameShift ==
    InlineCase =>
        /\ IsOk(reply.res) /\ IsOk(reply.res.val)
        /\ LET sym == reply.res.val.val
               n == Len(Stack)
           IN  /\ Len(sym.inlined) = n
               /\ \A i \in 1..(n - 1) :
                     sym.inlined[i].code_info = OptCodeInfo(Stack[i + 1].val.location)
               /\ IsSome(Stack[1].val.location)
                     => /\ sym.code_info = OptCodeInfo(Stack[1].val.location)
                        /\ sym.inlined[n].code_info = Some(Direct)
               /\ ~IsSome(Stack[1].val.location)
                     => /\ sym.code_info = Some(Direct)
                        /\ sym.inlined[n].code_info = None

\* C1 witness: a stack of three frames, the outermost with a call site and
\* the middle one without, was shifted.
C1_Witness ==
    /\ InlineCase
    /\ Len(Stack) = 3
    /\ IsSome(Stack[1].val.location)
    /\ ~IsSome(Stack[2].val.location)
    /\ IsSome(Stack[3].val.location)
    /\ IsOk(reply.res) /\ IsOk(reply.res.val)
    /\ reply.res.val.val.code_info = OptCodeInfo(Stack[1].val.location)
    /\ reply.res.val.val.inlined[1].code_info = None
    /\ reply.res.val.val.inlined[3].code_info = Some(Direct)

\* Every frame of the stack carries a call site.
AllCallSites == \A i \in DOMAIN Stack : IsSome(Stack[i].val.location)

\* C2 (as claimed): inlined is ordered innermost-first: its first element is
\* the frame whose code_info is the line-program location of the address.
C2_InnermostFirst ==
    (InlineCase /\ AllCallSites)
        => /\ IsOk(reply.res) /\ IsOk(reply.res.val)
           /\ reply.res.val.val.inlined[1].code_info = Some(Direct)

\* What the DWARF resolver answers to the request.
DwarfAnswer ==
    DwarfResolver_find_sym(request.opts, request.found, request.elf,
                           request.location, request.inline_stack)

\* C7: DWARF-preferred address lookup. An ElfResolver with a DWARF backend
\* returns the DWARF resolver's symbol whenever it yields one, and what the
\* ELF parser answers when the DWARF resolver yields a Reason.
C7_DwarfPreferred ==
    ( /\ request.kind = "find_sym"
      /\ reply.op = "ElfResolver::find_sym"
      /\ request.backend = "Dwarf" )
        => /\ (IsOk(DwarfAnswer) /\ IsOk(DwarfAnswer.val))
                 => reply.res = Ok(Ok(DwarfAnswer.val.val))
           /\ (IsOk(DwarfAnswer) /\ IsErr(DwarfAnswer.val))
                 => reply.res = request.elf

\* C7 witness: the ELF table has a symbol for the address and the DWARF
\* function, a different symbol, was returned.
C7_Witness ==
    /\ request.kind = "find_sym"
    /\ reply.op = "ElfResolver::find_sym"
    /\ request.backend = "Dwarf"
    /\ request.elf = Ok(Ok(ElfSym))
    /\ request.found = Ok(Some(MainFn))
    /\ IsOk(reply.res) /\ IsOk(reply.res.val)
    /\ reply.res.val.val.name = "main"

\* C8: ELF fallback inside the DWARF resolver. With no DWARF function for the
\* address, a Reason from the ELF parser is returned unchanged; an ELF symbol,
\* when code_info is asked for, is returned with the line-program location as
\* its code_info when there is one and as the ELF parser returned it when
\* there is none, and with no inlined frames.
C8_ElfFallback ==
    ( /\ request.kind = "find_sym"
      /\ reply.op = "DwarfResolver::find_sym"
      /\ request.found = Ok(None)
      /\ IsOk(request.elf) )
        => /\ IsErr(request.elf.val) => reply.res = Ok(Err(request.elf.val.err))
           /\ ( /\ IsOk(request.elf.val)
                /\ FindSymOpts_code_info(request.opts)
                /\ IsOk(request.location) )
                 => /\ IsOk(reply.res) /\ IsOk(reply.res.val)
                    /\ reply.res.val.val.inlined = <<>>
                    /\ IsSome(request.location.val)
                          => reply.res.val.val =
                                [request.elf.val.val EXCEPT
                                    !.code_info = Some(Direct), !.inlined = <<>>]
                    /\ ~IsSome(request.location.val)
                          => reply.res.val.val = request.elf.val.val

\* C8 witness: an ELF symbol got the line-program location, inlined frames
\* having been asked for too.
C8_Witness ==
    /\ request.kind = "find_sym"
    /\ reply.op = "DwarfResolver::find_sym"
    /\ request.found = Ok(None)
    /\ request.elf = Ok(Ok(ElfSym))
    /\ request.opts = "CodeInfoAndInlined"
    /\ IsOk(request.location) /\ IsSome(request.location.val)
    /\ IsOk(reply.res) /\ IsOk(reply.res.val)
    /\ reply.res.val.val.name = ElfSym.name
    /\ reply.res.val.val.code_info = Some(Direct)

\* ------------------------------------------------------------------------
\* Properties of name lookup
\* ------------------------------------------------------------------------

\* What the DWARF resolver answers to the find_addr request.
DwarfSyms ==
    DwarfResolver_find_addr(request.opts, request.found, request.file_offset,
                            request.path).res

\* find_name and find_file_offset fail for no item of the request.
SearchSucceeds ==
    /\ \A i \in DOMAIN request.found : IsOk(request.found[i])
    /\ IsOk(request.file_offset)

\* C9 (as claimed): for every sym_type, Variable included, find_addr on a
\* resolver with a DWARF backend returns the DWARF result if that is a
\* non-empty list and the ELF parser's result otherwise.
C9_FallbackEveryType ==
    ( /\ request.kind = "find_addr"
      /\ reply.op = "ElfResolver::find_addr"
      /\ request.backend = "Dwarf"
      /\ SearchSucceeds )
        => IF IsOk(DwarfSyms) /\ DwarfSyms.val # <<>>
           THEN reply.res = DwarfSyms
           ELSE reply.res = request.elf

\* C9 (amended): when the DWARF lookup succeeds (sym_type Function or
\* Undefined), find_addr returns its list if non-empty and the ELF parser's
\* result otherwise; when it fails, as it always does for sym_type Variable,
\* the DWARF resolver's error is returned and ELF is not asked.
C9_FallbackUnlessError ==
    ( /\ request.kind = "find_addr"
      /\ reply.op = "ElfResolver::find_addr"
      /\ request.backend = "Dwarf" )
        => /\ (IsOk(DwarfSyms) /\ DwarfSyms.val # <<>>) => reply.res = DwarfSyms
           /\ (IsOk(DwarfSyms) /\ DwarfSyms.val = <<>>) => reply.res = request.elf
           /\ IsErr(DwarfSyms) => reply.res = DwarfSyms
           /\ request.opts.sym_type \in {"Function", "Undefined"} /\ SearchSucceeds
                 => IsOk(DwarfSyms)
           /\ request.opts.sym_type = "Variable"
                 => /\ IsErr(reply.res)
                    /\ reply.res = DwarfSyms

\* C9 witness: DWARF knows no function of the name and the ELF parser's
\* symbol was returned.
C9_Witness ==
    /\ request.kind = "find_addr"
    /\ reply.op = "ElfResolver::find_addr"
    /\ request.backend = "Dwarf"
    /\ request.opts.sym_type = "Undefined"
    /\ request.found = <<>>
    /\ request.elf = Ok(<<ElfSymInfo>>)
    /\ reply.res = Ok(<<ElfSymInfo>>)

\* C10: the DWARF resolver refuses what it does not support. find_addr with
\* sym_type Variable fails with an error of kind Unsupported without
\* searching, whatever find_name would yield; for_each fails with kind
\* Unsupported for every opts and the visitor is never called.
C10_Unsupported ==
    /\ ( /\ reply.op = "DwarfResolver::find_addr"
         /\ request.opts.sym_type = "Variable" )
          => /\ IsErr(reply.res)
             /\ ErrorImpl_kind(reply.res.err) = "Unsupported"
             /\ ~reply.searched
    /\ reply.op = "DwarfResolver::for_each"
          => /\ IsErr(reply.res)
             /\ ErrorImpl_kind(reply.res.err) = "Unsupported"
             /\ reply.visited = 0

\* C10 witness: a variable was asked for by a name that DWARF has a function
\* for, and the lookup was refused.
C10_Witness ==
    /\ reply.op = "DwarfResolver::find_addr"
    /\ request.opts.sym_type = "Variable"
    /\ request.found = <<Ok(MainFn)>>
    /\ IsErr(reply.res)
    /\ ~reply.searched

\* ------------------------------------------------------------------------
\* Properties of the backends and of the options
\* ------------------------------------------------------------------------

\* C11: with debug_syms = false the resolver is ELF-only. from_parser builds
\* the ELF backend whether or not the file's DWARF would load, and find_sym
\* and find_addr of a resolver with that backend return what the ELF parser
\* answers, whatever the DWARF units would have answered.
C11_ElfOnly ==
    /\ \A path \in Paths, dwarfOk \in BOOLEAN :
          LET parser == ElfParser_open_file(path, TRUE, 0).val
              resolver == ElfResolver_from_parser(parser, FALSE, dwarfOk)
          IN  /\ IsOk(resolver)
              /\ resolver.val.backend = [tag |-> "Elf", parser |-> parser]
    /\ ( /\ reply.op \in {"ElfResolver::find_sym", "ElfResolver::find_addr"}
         /\ request.backend = "Elf" )
          => reply.res = request.elf

\* C11 witness: DWARF has a function of the name, the backend is ELF, and the
\* ELF parser's empty answer was returned.
C11_Witness ==
    /\ reply.op = "ElfResolver::find_addr"
    /\ request.backend = "Elf"
    /\ request.opts.sym_type = "Function"
    /\ request.found = <<Ok(MainFn)>>
    /\ request.elf = Ok(<<>>)
    /\ reply.res = Ok(<<>>)

\* DwarfResolver::find_sym was applied to an address that a DWARF function
\* with a decodable name covers.
DwarfFunctionCase ==
    /\ request.kind = "find_sym"
    /\ reply.op = "DwarfResolver::find_sym"
    /\ IsOk(request.found)
    /\ IsSome(request.found.val)
    /\ IsOk(ResolvedSym_from(request.found.val.val))

\* The symbol of the DWARF function before any enrichment.
BareSym == ResolvedSym_from(request.found.val.val).val

\* C13: with code_info asked for and inlined_fns not, the symbol's code_info
\* is the line-program location of the address itself (dir, file and line as
\* they are, the column as a u16) and inlined is empty, whatever the inline
\* stack of the address is.
C13_CodeInfoUnshifted ==
    ( /\ DwarfFunctionCase
      /\ request.opts = "CodeInfo"
      /\ IsOk(request.location)
      /\ IsSome(request.location.val) )
        => LET l == request.location.val.val
           IN  /\ reply.res = Ok(Ok([BareSym EXCEPT
                                        !.code_info = Some(CodeInfo_from(l)),
                                        !.inlined = <<>>]))
               /\ reply.res.val.val.code_info.val.dir = Some(l.dir)
               /\ reply.res.val.val.code_info.val.file = l.file
               /\ reply.res.val.val.code_info.val.line = l.line
               /\ (IsSome(l.column) /\ l.column.val <= U16_MAX)
                     => reply.res.val.val.code_info.val.column = l.column

\* C13 witness: the address lies inside two inlined subroutines with call
\* sites, and the symbol came back with the line-program location and no
\* inlined frames.
C13_Witness ==
    /\ DwarfFunctionCase
    /\ request.opts = "CodeInfo"
    /\ IsOk(request.location) /\ IsSome(request.location.val)
    /\ IsOk(request.inline_stack) /\ IsSome(request.inline_stack.val)
    /\ Len(request.inline_stack.val.val) = 2
    /\ \A i \in 1..2 : /\ IsOk(request.inline_stack.val.val[i])
                       /\ IsSome(request.inline_stack.val.val[i].val.location)
    /\ IsOk(reply.res) /\ IsOk(reply.res.val)
    /\ reply.res.val.val.code_info = Some(CodeInfo_from(request.location.val.val))
    /\ reply.res.val.val.inlined = <<>>

\* C14: options gate the enrichment. Without code_info in opts a symbol
\* resolved from a DWARF function comes back with code_info = None and no
\* inlined frames, and the location is not looked up (a failing find_location
\* does not fail the call); inlined is non-empty only if inlined_fns was asked
\* for and the symbol carries a code_info.
C14_OptionsGate ==
    /\ (DwarfFunctionCase /\ ~FindSymOpts_code_info(request.opts))
          => /\ reply.res = Ok(Ok(BareSym))
             /\ reply.res.val.val.code_info = None
             /\ reply.res.val.val.inlined = <<>>
    /\ ( /\ reply.op \in {"DwarfResolver::find_sym", "ElfResolver::find_sym"}
         /\ IsOk(reply.res)
         /\ IsOk(reply.res.val)
         /\ reply.res.val.val.inlined # <<>> )
          => /\ FindSymOpts_inlined_fns(request.opts)
             /\ FindSymOpts_code_info(request.opts)
             /\ IsSome(reply.res.val.val.code_info)

\* C14 witness: nothing but the symbol was asked for, find_location would
\* have failed, and the bare symbol was returned.
C14_Witness ==
    /\ DwarfFunctionCase
    /\ request.opts = "Basic"
    /\ IsErr(request.location)
    /\ request.found = Ok(Some(MainFn))
    /\ IsOk(reply.res) /\ IsOk(reply.res.val)
    /\ reply.res.val.val.name = "main"
    /\ reply.res.val.val.code_info = None

\* The name lookup matches nothing: DWARF has no function of the name (or is
\* not the backend) and the ELF parser has no symbol of it.
NoNameMatch ==
    /\ request.kind = "find_addr"
    /\ reply.op \in {"DwarfResolver::find_addr", "ElfResolver::find_addr"}
    /\ request.found = <<>>
    /\ request.elf = Ok(<<>>)

\* C15 (as claimed): a find_sym for an address covered by nothing returns
\* Ok(Err(reason)) and a find_addr for a name matched by nothing returns an
\* empty list; neither returns an Error.
C15_NoResultNeverError ==
    /\ ( /\ reply.op \in {"DwarfResolver::find_sym", "ElfResolver::find_sym"}
         /\ request.found = Ok(None)
         /\ IsOk(request.elf)
         /\ IsErr(request.elf.val) )
          => reply.res = Ok(Err(request.elf.val.err))
    /\ NoNameMatch => reply.res = Ok(<<>>)

\* C15 (amended): a find_sym for an address covered by nothing returns
\* Ok(Err(reason)); a find_addr for a name matched by nothing returns an empty
\* list unless the request is one the DWARF resolver refuses (sym_type
\* Variable on a DWARF backend), which is an Error.
C15_NoResultNotError ==
    /\ ( /\ reply.op \in {"DwarfResolver::find_sym", "ElfResolver::find_sym"}
         /\ request.found = Ok(None)
         /\ IsOk(request.elf)
         /\ IsErr(request.elf.val) )
          => reply.res = Ok(Err(request.elf.val.err))
    /\ (NoNameMatch /\ (request.backend = "Elf" \/ request.opts.sym_type # "Variable"))
          => reply.res = Ok(<<>>)
    /\ (NoNameMatch /\ request.backend = "Dwarf" /\ request.opts.sym_type = "Variable")
          => IsErr(reply.res)

\* C15 witness: neither DWARF nor the symbol table knows the address and the
\* symbol table's reason was returned in a successful result.
C15_Witness ==
    /\ reply.op = "ElfResolver::find_sym"
    /\ request.backend = "Dwarf"
    /\ request.found = Ok(None)
    /\ request.elf = Ok(Err("UnknownAddr"))
    /\ reply.res = Ok(Err("UnknownAddr"))

\* ------------------------------------------------------------------------
\* Properties of address lookup over function tables
\* ------------------------------------------------------------------------

\* An address lookup over the function table has returned a symbol.
SymAt ==
    /\ request.kind = "find_sym_at"
    /\ reply.op \in {"DwarfResolver::find_sym", "ElfResolver::find_sym"}
    /\ IsOk(reply.res)
    /\ IsOk(reply.res.val)

\* The function find_function yields for the address of the request.
FoundAt == Units_find_function(request.functions, request.addr)

\* C12: range containment of address lookup. A symbol returned for address a
\* with a known size has addr <= a < addr + size; a symbol resolved from a
\* DWARF function with range [begin, end) has addr = begin and
\* size = end - begin; an address equal to the begin of a function resolves
\* to a function, and an address equal to the end of a function does not
\* resolve to that function.
C12_RangeContainment ==
    /\ (SymAt /\ IsSome(reply.res.val.val.size))
          => /\ reply.res.val.val.addr <= request.addr
             /\ request.addr < reply.res.val.val.addr + reply.res.val.val.size.val
    /\ (SymAt /\ request.backend = "Dwarf" /\ IsSome(FoundAt.val))
          => LET range == FoundAt.val.val.range.val
             IN  /\ reply.res.val.val.name = FoundAt.val.val.name.val
                 /\ reply.res.val.val.addr = range.begin
                 /\ reply.res.val.val.size = Some(range.end - range.begin)
    /\ ( /\ request.kind = "find_sym_at"
         /\ reply.op = "DwarfResolver::find_sym" )
          => \A i \in DOMAIN request.functions :
                LET f == request.functions[i]
                IN  /\ f.range.val.begin = request.addr
                       => /\ SymAt
                          /\ reply.res.val.val.name \in
                                {FnNames[j] : j \in 1..i}
                    /\ f.range.val.end = request.addr
                       => ~(SymAt /\ reply.res.val.val.name = f.name.val)

\* C12 witness: the address is the end of the first function and the begin
\* of the second, and the second was returned.
C12_Witness ==
    /\ SymAt
    /\ reply.op = "DwarfResolver::find_sym"
    /\ Len(request.functions) = 2
    /\ request.functions[1].range.val.end = request.addr
    /\ request.functions[2].range.val.begin = request.addr
    /\ reply.res.val.val.name = "fn_2"
    /\ reply.res.val.val.addr = request.addr
    /\ reply.res.val.val.size =
          Some(request.functions[2].range.val.end - request.addr)

\* ------------------------------------------------------------------------
\* Properties of opening, of errors and of the language conversion
\* ------------------------------------------------------------------------

\* C16 (as claimed): ElfResolver::open on a path that cannot be opened or
\* read returns Err carrying the I/O error; it does not panic.
C16_OpenErrorsPropagate ==
    (reply.op = "ElfResolver::open" /\ IsErr(request.opened))
        => /\ reply.res # Panic
           /\ IsErr(reply.res)
           /\ Error_kind(reply.res.err) = Error_kind(request.opened.err)

\* The root error of the request.
RootError ==
    IF request.root.from = "io"
    THEN Error_from_io(request.root)
    ELSE Error_from_gimli(request.root.msg)

\* C17: context layering preserves the kind. After any sequence of context
\* and with_context applications the kind of the layered error is the kind of
\* the root error, and no application changes the kind.
C17_ContextKeepsKind ==
    reply.op \in ErrorOps
        => /\ reply.kind = Error_kind(RootError)
           /\ \A context \in Contexts :
                 /\ Error_kind(ErrorExt_context(reply.error, context)) = reply.kind
                 /\ Error_kind(ErrorExt_with_context(reply.error, context)) = reply.kind

\* C17 witness: an I/O error of kind NotFound under three layers, static and
\* owned, still has kind NotFound.
C17_Witness ==
    /\ reply.op \in ErrorOps
    /\ Len(reply.layers) = 3
    /\ request.root = [from |-> "io", kind |-> "NotFound", custom |-> None]
    /\ reply.error.variant = "ContextOwned"
    /\ reply.error.source.variant = "ContextStatic"
    /\ reply.kind = "NotFound"

\* The message of the root error: of a gimli error its own, of an io::Error
\* that of the error it wraps or else that of its kind.
RootMessage ==
    IF request.root.from = "gimli"
    THEN request.root.msg
    ELSE IF IsSome(request.root.custom)
    THEN request.root.custom.val.msg
    ELSE request.root.kind

RECURSIVE CauseMessages(_)
\* The messages of a cause and of the causes below it, each after ": ".
CauseMessages(cause) ==
    IF IsSome(cause)
    THEN <<": ", cause.val.msg>> \o CauseMessages(cause.val.source)
    ELSE <<>>

\* The causes below the root error: the sources of the error an io::Error
\* wraps.
RootCauses ==
    IF request.root.from = "io" /\ IsSome(request.root.custom)
    THEN CauseMessages(request.root.custom.val.source)
    ELSE <<>>

RECURSIVE JoinedChain(_, _)
\* The contexts from the one added last to the one added first, then the
\* root's message, with ": " between them.
JoinedChain(layers, root) ==
    IF layers = <<>>
    THEN <<root>>
    ELSE <<layers[Len(layers)], ": ">>
            \o JoinedChain(SubSeq(layers, 1, Len(layers) - 1), root)

\* C18 (as claimed): two display modes. The short form is the outermost
\* message alone (the context added last, or the root's message without
\* contexts); the long form is every message of the chain once, from the
\* outermost context to the root error, joined by ": ".
C18_DisplayModes ==
    reply.op \in ErrorOps
        => /\ reply.short = <<IF reply.layers = <<>>
                              THEN RootMessage
                              ELSE reply.layers[Len(reply.layers)]>>
           /\ reply.long = JoinedChain(reply.layers, RootMessage)
           /\ Len(reply.long) = 2 * Len(reply.layers) + 1

\* C18 (amended): the short form is the outermost message alone; the long
\* form is every message of the chain once, joined by ": ", from the
\* outermost context to the root error and on through the sources the root
\* error has of its own.
C18_DisplayFullChain ==
    reply.op \in ErrorOps
        => /\ reply.short = <<IF reply.layers = <<>>
                              THEN RootMessage
                              ELSE reply.layers[Len(reply.layers)]>>
           /\ reply.long = JoinedChain(reply.layers, RootMessage) \o RootCauses
           /\ Len(reply.long) = 2 * Len(reply.layers) + 1 + Len(RootCauses)

\* C18 witness: "outer context: inner context: wrapper failed: inner cause"
\* in the long form and "outer context" in the short one, for an io::Error
\* that wraps an error with a source.
C18_Witness ==
    /\ reply.op = "ErrorExt::with_context"
    /\ request.root = [from |-> "io", kind |-> "Other",
                       custom |-> Some(CustomError("wrapper failed",
                                          Some(CustomError("inner cause", None))))]
    /\ reply.layers = <<"inner context", "outer context">>
    /\ reply.short = <<"outer context">>
    /\ reply.long = <<"outer context", ": ", "inner context", ": ",
                      "wrapper failed", ": ", "inner cause">>

\* C19: kind classification. An Io-rooted error of one of the eleven io kinds
\* named has the ErrorKind of the same name, of any other io kind it has kind
\* Other; a Dwarf-rooted error has kind InvalidDwarf.
C19_KindClassification ==
    reply.op \in ErrorOps
        => /\ (request.root.from = "io" /\ request.root.kind \in
                  {"NotFound", "PermissionDenied", "AlreadyExists", "WouldBlock",
                   "InvalidInput", "InvalidData", "TimedOut", "WriteZero",
                   "Unsupported", "UnexpectedEof", "OutOfMemory"})
                 => reply.kind = request.root.kind
           /\ (request.root.from = "io" /\ request.root.kind \notin
                  {"NotFound", "PermissionDenied", "AlreadyExists", "WouldBlock",
                   "InvalidInput", "InvalidData", "TimedOut", "WriteZero",
                   "Unsupported", "UnexpectedEof", "OutOfMemory"})
                 => reply.kind = "Other"
           /\ request.root.from = "gimli" => reply.kind = "InvalidDwarf"

\* C19 witness: an io error of kind BrokenPipe was classified as Other.
C19_Witness ==
    /\ reply.op = "Error::from"
    /\ request.root = [from |-> "io", kind |-> "BrokenPipe", custom |-> None]
    /\ reply.kind = "Other"

\* The DW_LANG_C_plus_plus* family.
CppFamily ==
    {"DW_LANG_C_plus_plus", "DW_LANG_C_plus_plus_03", "DW_LANG_C_plus_plus_11",
     "DW_LANG_C_plus_plus_14", "DW_LANG_C_plus_plus_17", "DW_LANG_C_plus_plus_20"}

\* C20 (as claimed): DW_LANG_Rust maps to Rust, every member of the
\* DW_LANG_C_plus_plus* family to Cpp, every other value and an absent
\* language to Unknown.
C20_LanguageMapping ==
    reply.op = "SrcLang::from"
        => reply.lang =
              IF request.language = Some("DW_LANG_Rust")
              THEN "Rust"
              ELSE IF IsSome(request.language) /\ request.language.val \in CppFamily
              THEN "Cpp"
              ELSE "Unknown"

\* ------------------------------------------------------------------------
\* Further properties of address lookup, of the cache and of the composition
\* ------------------------------------------------------------------------

\* The locations the DWARF units answer the request with: the line-program
\* location and the call sites of the inline stack.
RequestLocations ==
    (IF IsOk(request.location) /\ IsSome(request.location.val)
     THEN {request.location.val.val}
     ELSE {})
    \cup
    (IF IsOk(request.inline_stack) /\ IsSome(request.inline_stack.val)
     THEN {request.inline_stack.val.val[i].val.location.val :
             i \in {j \in DOMAIN request.inline_stack.val.val :
                      /\ IsOk(request.inline_stack.val.val[j])
                      /\ IsSome(request.inline_stack.val.val[j].val.location)}}
     ELSE {})

\* The code_infos a returned symbol exports: its own and its inlined frames'.
ExportedCodeInfos(sym) ==
    {sym.code_info} \cup {sym.inlined[i].code_info : i \in DOMAIN sym.inlined}

\* A find_sym on the DWARF resolver has returned a symbol.
DwarfSymReturned ==
    /\ request.kind = "find_sym"
    /\ reply.op = "DwarfResolver::find_sym"
    /\ IsOk(reply.res)
    /\ IsOk(reply.res.val)

\* C21: column clamping. Every exported code_info, of the physical symbol and
\* of every inlined frame, is that of a location of the units with the column
\* as it is when at most 65535, 65535 when it is larger, and absent when the
\* location has none.
C21_ColumnClamp ==
    DwarfSymReturned =>
        \A ci \in ExportedCodeInfos(reply.res.val.val) :
            IsSome(ci) =>
                /\ \E l \in RequestLocations :
                      /\ ci.val.dir = Some(l.dir)
                      /\ ci.val.file = l.file
                      /\ ci.val.line = l.line
                      /\ ci.val.column =
                            IF ~IsSome(l.column) THEN None
                            ELSE IF l.column.val <= 65535 THEN l.column
                            ELSE Some(65535)
                /\ IsSome(ci.val.column) => ci.val.column.val <= 65535

\* C21 witness: an inlined frame exports column 65535 for a call site at
\* column 65536, another exports no column, and the physical symbol exports
\* a small column unchanged.
C21_Witness ==
    /\ DwarfSymReturned
    /\ InlineCase
    /\ AllCallSites
    /\ Len(reply.res.val.val.inlined) = 3
    /\ request.inline_stack.val.val[1].val.location.val.column = Some(2)
    /\ request.inline_stack.val.val[2].val.location.val.column = Some(65536)
    /\ request.inline_stack.val.val[3].val.location.val.column = None
    /\ reply.res.val.val.code_info.val.column = Some(2)
    /\ reply.res.val.val.inlined[1].code_info.val.column = Some(65535)
    /\ reply.res.val.val.inlined[2].code_info.val.column = None

\* C22: the backend is fixed per slot. Every resolver in a dwarf slot, and
\* every resolver elf_resolver(path, true) returns, has the DWARF backend;
\* every resolver in an elf slot, and every resolver elf_resolver(path, false)
\* returns, has the ELF backend; no step changes the backend of a stored
\* resolver.
C22_BackendFixed ==
    [][ /\ \A p \in Paths, d \in BOOLEAN :
              /\ IsSome(CachedSlot(cache', p, d))
                    => CachedSlot(cache', p, d).val.backend.tag =
                          IF d THEN "Dwarf" ELSE "Elf"
              /\ IsSome(CachedSlot(cache, p, d))
                    => /\ IsSome(CachedSlot(cache', p, d))
                       /\ CachedSlot(cache', p, d).val.backend =
                             CachedSlot(cache, p, d).val.backend
        /\ (last'.tag = "Call" /\ IsOk(last'.res))
              => last'.res.val.backend.tag =
                    IF last'.debug_syms THEN "Dwarf" ELSE "Elf"
      ]_vars

\* C22 witness: both slots of a path are populated, one resolver of each
\* backend, and the last call returned the one with the DWARF backend.
C22_Witness ==
    /\ last.tag = "Call"
    /\ last.debug_syms
    /\ IsOk(last.res)
    /\ last.res.val.backend.tag = "Dwarf"
    /\ IsSome(CachedSlot(cache, last.path, FALSE))
    /\ CachedSlot(cache, last.path, FALSE).val.backend.tag = "Elf"
    /\ CachedSlot(cache, last.path, TRUE) = Some(last.res.val)

\* C23: errors of the DWARF layer are not swallowed. When the DWARF
\* resolver's find_sym or find_addr returns an Error, ElfResolver::find_sym /
\* find_addr returns that Error, whatever the ELF parser would answer.
C23_DwarfErrorsNotSwallowed ==
    /\ ( /\ request.kind = "find_sym"
         /\ reply.op = "ElfResolver::find_sym"
         /\ request.backend = "Dwarf"
         /\ IsErr(DwarfAnswer) )
          => reply.res = DwarfAnswer
    /\ ( /\ request.kind = "find_addr"
         /\ reply.op = "ElfResolver::find_addr"
         /\ request.backend = "Dwarf"
         /\ IsErr(DwarfSyms) )
          => reply.res = DwarfSyms

\* C23 witness: find_function failed, the symbol table has a symbol for the
\* address, and the error was returned.
C23_Witness ==
    /\ request.kind = "find_sym"
    /\ reply.op = "ElfResolver::find_sym"
    /\ request.backend = "Dwarf"
    /\ request.found = Err(DwarfError("bad unit"))
    /\ request.elf = Ok(Ok(ElfSym))
    /\ reply.res = Err(DwarfError("bad unit"))

\* C24: the invariant behind the SANITY unwraps. In every state of sequential
\* use an entry that exists has at least one slot populated, and no call,
\* successful or failing, has panicked.
C24_EntryNeverEmpty ==
    /\ \A p \in Paths :
          IsSome(cache[p])
              => IsSome(cache[p].val.elf) \/ IsSome(cache[p].val.dwarf)
    /\ last.tag = "Call" => last.res # Panic

\* C24 witness: after a failed attempt to fill the second slot of an entry,
\* a call filled it from the first slot's parser and returned.
C24_Witness ==
    /\ last.tag = "Call"
    /\ last.retry
    /\ IsSome(last.before)
    /\ ~IsSome(SlotOf(last.before.val, last.debug_syms))
    /\ IsSome(OtherSlotOf(last.before.val, last.debug_syms))
    /\ IsOk(last.res)
    /\ last.opened = 0

\* The code_infos that go into the frame shift, the line-program location
\* first and then the call sites in iteration order, and those that come out,
\* the physical symbol's first and then the inlined frames'.
LocationsIn ==
    <<Some(Direct)>> \o [i \in DOMAIN Stack |-> OptCodeInfo(Stack[i].val.location)]

LocationsOut ==
    <<reply.res.val.val.code_info>>
        \o [i \in DOMAIN reply.res.val.val.inlined |->
               reply.res.val.val.inlined[i].code_info]

\* How often v occurs in seq.
Occurrences(seq, v) == Cardinality({i \in DOMAIN seq : seq[i] = v})

\* C25: the frame shift only permutes locations. For every inline stack,
\* frames without a call site included, the physical symbol's code_info and
\* the inlined frames' code_infos are, as a multiset, the line-program
\* location and the frames' call sites; and the physical symbol's code_info
\* is present.
C25_ShiftPermutes ==
    InlineCase =>
        /\ IsOk(reply.res) /\ IsOk(reply.res.val)
        /\ Len(LocationsOut) = Len(LocationsIn)
        /\ \A i \in DOMAIN LocationsIn :
              Occurrences(LocationsOut, LocationsIn[i])
                 = Occurrences(LocationsIn, LocationsIn[i])
        /\ IsSome(reply.res.val.val.code_info)

\* C25 witness: a stack of three frames of which the first and the last have
\* no call site; the physical symbol kept the line-program location and the
\* one call site moved to the first frame.
C25_Witness ==
    /\ InlineCase
    /\ Len(Stack) = 3
    /\ ~IsSome(Stack[1].val.location)
    /\ IsSome(Stack[2].val.location)
    /\ ~IsSome(Stack[3].val.location)
    /\ IsOk(reply.res) /\ IsOk(reply.res.val)
    /\ reply.res.val.val.code_info = Some(Direct)
    /\ reply.res.val.val.inlined[1].code_info = OptCodeInfo(Stack[2].val.location)
    /\ reply.res.val.val.inlined[2].code_info = None
    /\ reply.res.val.val.inlined[3].code_info = None

\* C26: names are not shifted. The inlined list has as many elements as the
\* inline stack found for the address, and element i has the name of the
\* i-th frame of the stack in iteration order.
C26_NamesInPlace ==
    InlineCase =>
        /\ IsOk(reply.res) /\ IsOk(reply.res.val)
        /\ Len(reply.res.val.val.inlined) = Len(Stack)
        /\ \A i \in DOMAIN Stack :
              reply.res.val.val.inlined[i].name = Stack[i].val.name

\* C26 witness: three frames whose code_infos all moved and whose names
\* stayed.
C26_Witness ==
    /\ InlineCase
    /\ Len(Stack) = 3
    /\ AllCallSites
    /\ Stack[1].val.location # Stack[2].val.location
    /\ Stack[2].val.location # Stack[3].val.location
    /\ IsOk(reply.res) /\ IsOk(reply.res.val)
    /\ \A i \in 1..3 :
          /\ reply.res.val.val.inlined[i].name = FrameNames[i]
          /\ reply.res.val.val.inlined[i].code_info
                # OptCodeInfo(Stack[i].val.location)

\* C27: shape of the DWARF name-lookup results. For sym_type Function or
\* Undefined, when nothing fails, find_addr returns one SymInfo per function
\* found by name, in order, each with the function's name, sym_type Function,
\* addr = range.begin (0 without a range), size = end - begin (0 without a
\* range or with end < begin), obj_file_name = the parser's path, and a
\* file_offset only if offset_in_file was asked for.
C27_SymInfoShape ==
    ( /\ request.kind = "find_addr"
      /\ reply.op = "DwarfResolver::find_addr"
      /\ request.opts.sym_type \in {"Function", "Undefined"}
      /\ \A i \in DOMAIN request.found : IsOk(request.found[i])
      /\ request.opts.offset_in_file => IsOk(request.file_offset) )
        => /\ IsOk(reply.res)
           /\ Len(reply.res.val) = Len(request.found)
           /\ \A i \in DOMAIN request.found :
                 LET f == request.found[i].val
                     info == reply.res.val[i]
                 IN  /\ info.name = f.name.val
                     /\ info.sym_type = "Function"
                     /\ info.addr = IF IsSome(f.range) THEN f.range.val.begin ELSE 0
                     /\ info.size = IF ~IsSome(f.range) THEN 0
                                    ELSE IF f.range.val.end < f.range.val.begin THEN 0
                                    ELSE f.range.val.end - f.range.val.begin
                     /\ info.obj_file_name = Some(request.path)
                     /\ info.file_offset = IF request.opts.offset_in_file
                                           THEN request.file_offset.val
                                           ELSE None
                     /\ IsSome(info.file_offset) => request.opts.offset_in_file

\* C27 witness: two functions of the name, one with end below begin and one
\* without a range, came back with size 0, the latter at addr 0, both with
\* the file offset asked for.
C27_Witness ==
    /\ request.kind = "find_addr"
    /\ reply.op = "DwarfResolver::find_addr"
    /\ request.opts = [sym_type |-> "Function", offset_in_file |-> TRUE]
    /\ request.found = <<Ok(BackwardsFn), Ok(HelperFn)>>
    /\ request.file_offset = Ok(Some(4096))
    /\ IsOk(reply.res)
    /\ reply.res.val[1].addr = 5 /\ reply.res.val[1].size = 0
    /\ reply.res.val[2].addr = 0 /\ reply.res.val[2].size = 0
    /\ reply.res.val[1].file_offset = Some(4096)

\* C28: for_each and file_offset_to_virt_offset delegate to the ELF parser
\* whatever the backend. With a DWARF backend for_each visits the parser's
\* symbols rather than failing with Unsupported, and both operations give
\* what they give on an ELF-only resolver over the same parser.
C28_DelegateToParser ==
    /\ reply.op = "ElfResolver::for_each"
          => /\ reply.res = ElfParser_for_each(request.opts, request.symbols).res
             /\ reply.visited = ElfParser_for_each(request.opts, request.symbols).visited
             /\ IsOk(request.symbols)
                   => /\ IsOk(reply.res)
                      /\ reply.visited = Len(request.symbols.val)
             /\ ElfResolver_for_each("Dwarf", request.opts, request.symbols)
                   = ElfResolver_for_each("Elf", request.opts, request.symbols)
    /\ reply.op = "ElfResolver::file_offset_to_virt_offset"
          => /\ reply.res = request.virt_offset
             /\ ElfResolver_file_offset_to_virt_offset("Dwarf", request.virt_offset)
                   = ElfResolver_file_offset_to_virt_offset("Elf", request.virt_offset)

\* C28 witness: on a resolver with a DWARF backend for_each visited the two
\* symbols of the symbol table.
C28_Witness ==
    /\ reply.op = "ElfResolver::for_each"
    /\ request.backend = "Dwarf"
    /\ request.symbols = Ok(<<ElfSymInfo, ElfSymInfo>>)
    /\ IsOk(reply.res)
    /\ reply.visited = 2

\* C29: the symbol-type filter. sym_matches with Function holds exactly for
\* ELF types STT_FUNC (2) and STT_GNU_IFUNC (10), with Variable exactly for
\* STT_OBJECT (1), with Undefined exactly for those three; SymType::try_from
\* yields Function and Variable for the same types and fails for every other.
C29_SymTypeFilter ==
    /\ reply.op = "sym_matches"
          => LET ty == request.st_info % 16
             IN  /\ request.sym_type = "Function" => (reply.matches <=> ty \in {2, 10})
                 /\ request.sym_type = "Variable" => (reply.matches <=> ty = 1)
                 /\ request.sym_type = "Undefined" => (reply.matches <=> ty \in {1, 2, 10})
    /\ reply.op = "SymType::try_from"
          => LET ty == request.st_info % 16
             IN  /\ ty \in {2, 10} => reply.res = Ok("Function")
                 /\ ty = 1 => reply.res = Ok("Variable")
                 /\ ty \notin {1, 2, 10} => IsErr(reply.res)

\* C29 witness: a global indirect function (binding 1, type 10) matched
\* Function.
C29_Witness ==
    /\ reply.op = "sym_matches"
    /\ request.st_info = 26
    /\ request.sym_type = "Function"
    /\ reply.matches

\* ------------------------------------------------------------------------
\* Properties of the command line's output
\* ------------------------------------------------------------------------

\* Number of results for the input address of index idx.
RECURSIVE ResultsFor(_, _)
ResultsFor(syms, idx) ==
    IF syms = <<>>
    THEN 0
    ELSE (IF Head(syms) = idx THEN 1 ELSE 0) + ResultsFor(Tail(syms), idx)

RECURSIVE InlinedLines(_)
InlinedLines(n) == IF n <= 0 THEN <<>> ELSE <<InlinedLine>> \o InlinedLines(n - 1)

\* The output that covers every input address from index idx on.
RECURSIVE CoveringOutput(_, _, _)
CoveringOutput(addrs, syms, idx) ==
    IF idx >= Len(addrs)
    THEN <<>>
    ELSE (IF ResultsFor(syms, idx) = 0
          THEN <<NoSymbolLine(addrs[idx + 1])>>
          ELSE <<HeaderLine(addrs[idx + 1])>>
                   \o InlinedLines(ResultsFor(syms, idx) - 1))
         \o CoveringOutput(addrs, syms, idx + 1)

\* C30: the output of symbolize covers every input address: in input order,
\* one "<no-symbol>" line for each address without result, and for each
\* address with results one header line followed by a continuation line for
\* each further result.
C30_OutputCoversInputs ==
    reply.op = "symbolize"
        => reply.out = CoveringOutput(request.addrs, request.syms, 0)

====
